---- MODULE Spec2Model ----
(***************************************************************************)
(* Space Invader (src/spaceinvader.py): the frame loop of Game.run, the    *)
(* entities it updates and the collision resolver, as a state machine.     *)
(*                                                                         *)
(* Units.  Frame times and clock readings are integer milliseconds:        *)
(* pygame's Clock.tick returns integer milliseconds and the code uses      *)
(* dt = ms / 1000.0, a double.  Positions are pygame.Rect integers.        *)
(* The code computes its timers and displacements in doubles; the section  *)
(* "float arithmetic" reproduces the roundings that decide a comparison    *)
(* with 0 or a truncation to int.  A timer is a record [ms, err] for the   *)
(* double ms / 1000 + err / (125 * 2^FloatQ) seconds.  The combo           *)
(* multiplier is counted in tenths (COMBO_STEP = 0.1 is one tenth).  Grid  *)
(* speed and fire rate are kept as fractions num/den.  HARD_MODE is False, *)
(* as in the source.                                                       *)
(* Sound, particles and camera shake never feed back into game state and   *)
(* are left out, as are the unused fields descend_pending/time_since_shot. *)
(***************************************************************************)
EXTENDS Integers, Sequences, FiniteSets, TLC

\* ---------------------------------------------------------------- bounds
\* Handler steps (key events and scene updates) a run of the model takes.
MaxSteps == 2
\* Entries of list(cols.values()) that random.choice may return.
MaxShooters == 1
\* Handler steps a run takes from a state in the middle of a run.
MidSteps == 1

\* ------------------------------------------------------ program constants
WIDTH == 800
HEIGHT == 600
FPS == 60
PLAYER_SPEED == 300
PLAYER_W == 50
PLAYER_H == 30
PLAYER_CD_MS == 250
PLAYER_MAX_BULLETS == 3
PLAYER_LIVES == 3
ENEMY_ROWS == 6
ENEMY_COLS == 8
ENEMY_START_SPEED == 72
ENEMY_STEP_DOWN == 20
ENEMY_FIRE_RATE == [num |-> 28, den |-> 100]
ENEMY_MAX_BULLETS == 6
BOSS_CD_MIN == 20000
BOSS_CD_MAX == 30000
BOSS_SPEED == 200
PLAYER_BULLET_SPEED == -500
ENEMY_BULLET_SPEED == 300
SHIELD_COUNT == 4
SHIELD_SEG_ROWS == 3
SHIELD_SEG_COLS == 6
SHIELD_SEG_SIZE == 12
SHIELD_SEG_HP == 3
WAVE_SPEED_MULT == [num |-> 11, den |-> 10]
WAVE_FIRE_MULT == [num |-> 105, den |-> 100]
COMBO_WINDOW == 1000
COMBO_STEP == 1
INVULN_MS == 1500
BOSS_BONUS == 100
EDGE_MARGIN == 20
BREACH_MARGIN == 50
NEVER_KILLED == -999000

SCENE_MENU == "MENU"
SCENE_PLAYING == "PLAYING"
SCENE_PAUSED == "PAUSED"
SCENE_GAME_OVER == "GAME_OVER"
Scenes == {SCENE_MENU, SCENE_PLAYING, SCENE_PAUSED, SCENE_GAME_OVER}

\* ------------------------------------------------------------- arithmetic
\* int(n / d) for d > 0: Python's int() truncates toward zero.
Trunc(n, d) == IF n >= 0 THEN n \div d ELSE -((-n) \div d)

Max(a, b) == IF a >= b THEN a ELSE b
Min(a, b) == IF a <= b THEN a ELSE b

RECURSIVE Pow(_, _)
Pow(b, e) == IF e <= 0 THEN 1 ELSE b * Pow(b, e - 1)

\* Python round() of the fraction n / d (n >= 0, d > 0): half to even.
RoundHalfEven(n, d) ==
    LET q == n \div d
        r == n % d
    IN  IF 2 * r < d THEN q
        ELSE IF 2 * r > d THEN q + 1
        ELSE IF q % 2 = 0 THEN q ELSE q + 1

\* -------------------------------------------------------- float arithmetic
\* dt = ms / 1000.0 is the double nearest to ms thousandths, so the code's
\* sums and products are off the exact ones by parts in 2^53.  That shows
\* where an exact result is an integer or zero: 0.25 - 5 * 0.05 is 1.4e-17,
\* not 0, and int(300.0 * 0.41) is 122.  The operators below compute these
\* roundings (round to nearest, ties to even) with integers.

RECURSIVE FloorLog2(_)
FloorLog2(n) == IF n < 2 THEN 0 ELSE 1 + FloorLog2(n \div 2)

\* The least n >= 1 with ms * 2^n >= 1000, for 1 <= ms < 1000.
RECURSIVE DoublingsTo1000(_)
DoublingsTo1000(ms) == IF 2 * ms >= 1000 THEN 1 ELSE 1 + DoublingsTo1000(2 * ms)

\* The binary exponent k of ms / 1000, ms >= 1: 2^k <= ms / 1000 < 2^(k+1).
ExponentOfMs(ms) ==
    IF ms >= 1000 THEN FloorLog2(ms \div 1000) ELSE -DoublingsTo1000(ms)

RECURSIVE Pow2Mod1000(_)
Pow2Mod1000(q) ==
    IF q = 0 THEN 1
    ELSE LET h == Pow2Mod1000(q \div 2)
         IN  (h * h * (IF q % 2 = 1 THEN 2 ELSE 1)) % 1000

\* The remainder of ms * 2^(52 - k) by 1000: what the 53-bit significand of
\* ms / 1000.0 leaves out (under 500: rounded down, over 500: rounded up;
\* 500 cannot occur).
MsRemainder(ms) == ((ms % 1000) * Pow2Mod1000(52 - ExponentOfMs(ms))) % 1000

\* Doubles are kept as multiples of 2^-FloatQ: enough for ms / 1000.0 of
\* every ms >= 1.  A double x near ms thousandths is the record [ms, err]
\* with x = ms / 1000 + err / (125 * 2^FloatQ); 125 * 2^FloatQ * x is an
\* integer, so err is one.
FloatQ == 62

\* err of the double ms / 1000.0 (ms >= 0); MsRemainder is a multiple of 8.
MsErr(ms) ==
    IF ms = 0 THEN 0
    ELSE LET r == MsRemainder(ms)
         IN  ((IF r = 0 THEN 0 ELSE IF r < 500 THEN -r ELSE 1000 - r) \div 8)
                * Pow(2, FloatQ - 52 + ExponentOfMs(ms))

\* A value of whole milliseconds that is a double exactly (0.25, 1.5, 20.0).
Seconds(ms) == [ms |-> ms, err |-> 0]

\* x > 0 and x <= 0 for a double x = [ms, err]; err is far below one ms.
IsPositive(x) == x.ms > 0 \/ (x.ms = 0 /\ x.err > 0)

\* The inverse of 125 modulo 2^16: the numerator X = 2^FloatQ * x of a
\* double x = [ms, e] has 125 * X = ms * 2^(FloatQ - 3) + e, so the low p
\* bits of X are those of e * Inv125.
Inv125 == 30933

\* The low p bits (p <= 15) of the numerator of a double with err e.
LowBits(e, p) == ((e % Pow(2, p)) * (Inv125 % Pow(2, p))) % Pow(2, p)

\* The double nearest to the real ms / 1000 + err / (125 * 2^FloatQ), ties
\* to even: the result of a float addition or subtraction whose exact value
\* that real is.  Values under 32 s.
FloatRound(x) ==
    IF x.ms = 0 THEN x
    ELSE LET s == IF x.ms > 0 THEN 1 ELSE -1
             T == s * x.ms
             E == s * x.err
             k0 == ExponentOfMs(T)
             atPower == IF k0 >= 0 THEN T = 1000 * Pow(2, k0)
                        ELSE T * Pow(2, -k0) = 1000
             k == IF atPower /\ E < 0 THEN k0 - 1 ELSE k0
             p == FloatQ + k - 52
         IN  IF p <= 0 THEN x
             ELSE LET r == LowBits(E, p)
                      half == Pow(2, p - 1)
                      up == IF r # half THEN r > half
                            ELSE LowBits(E, p + 1) # half
                  IN  [ms |-> x.ms,
                       err |-> s * (IF up THEN E + 125 * (Pow(2, p) - r)
                                    ELSE E - 125 * r)]

\* x - dt for a double x and dt = ms / 1000.0
FloatSub(x, ms) == FloatRound([ms |-> x.ms - ms, err |-> x.err - MsErr(ms)])

\* int(v * dt) for an integral double v and dt = ms / 1000.0.  The product
\* differs from the exact v * ms / 1000 only by its rounding, so int() can
\* fall one short only where the exact product is an integer N and
\* ms / 1000.0 was rounded down; the product then still rounds up to N when
\* the shortfall v * r / (1000 * 2^(52 - k)) is at most half the spacing of
\* the doubles below N.
IntOfProduct(v, ms) ==
    LET av == IF v < 0 THEN -v ELSE v
        sgn == IF v < 0 THEN -1 ELSE 1
        a == av * ms
        N == a \div 1000
    IN  IF a % 1000 # 0 \/ a = 0 THEN sgn * N
        ELSE LET r == MsRemainder(ms)
                 j == FloorLog2(N)
                 e == j - ExponentOfMs(ms) - 1 - (IF N = Pow(2, j) THEN 1 ELSE 0)
                 back == IF e >= 0 THEN av * r <= 1000 * Pow(2, e)
                         ELSE av * r * Pow(2, -e) <= 1000
             IN  IF r = 0 \/ r > 500 \/ back THEN sgn * N ELSE sgn * (N - 1)

\* t - last <= COMBO_WINDOW for the clock readings t / 1000.0, last / 1000.0
\* (ms); the doubles decide when the readings are exactly the window apart.
WithinWindow(t, last, window) ==
    LET TimeErr(u) == IF u >= 0 THEN MsErr(u) ELSE -MsErr(-u)
        d == TimeErr(t) - TimeErr(last)
    IN  IF t - last # window THEN t - last < window
        ELSE IF last >= window THEN d <= 0
        ELSE d <= 125 * Pow(2, FloatQ - 53)

\* ------------------------------------------------------------ sequences

RECURSIVE SeqMinFrom(_, _, _)
SeqMinFrom(s, i, m) ==
    IF i > Len(s) THEN m ELSE SeqMinFrom(s, i + 1, IF s[i] < m THEN s[i] ELSE m)
RECURSIVE SeqMaxFrom(_, _, _)
SeqMaxFrom(s, i, m) ==
    IF i > Len(s) THEN m ELSE SeqMaxFrom(s, i + 1, IF s[i] > m THEN s[i] ELSE m)
\* min(s) and max(s) of a non-empty sequence
SeqMin(s) == SeqMinFrom(s, 2, s[1])
SeqMax(s) == SeqMaxFrom(s, 2, s[1])

InSeq(x, s) == \E i \in 1..Len(s) : s[i] = x

\* list.remove(x): drops the first occurrence.
RECURSIVE RemoveFirst(_, _)
RemoveFirst(s, x) ==
    IF s = <<>> THEN <<>>
    ELSE IF Head(s) = x THEN Tail(s)
    ELSE <<Head(s)>> \o RemoveFirst(Tail(s), x)

RemoveAt(s, i) == SubSeq(s, 1, i - 1) \o SubSeq(s, i + 1, Len(s))

\* Insert x into a descending sequence, after equal elements.
RECURSIVE InsertDesc(_, _)
InsertDesc(s, x) ==
    IF s = <<>> THEN <<x>>
    ELSE IF Head(s) >= x THEN <<Head(s)>> \o InsertDesc(Tail(s), x)
    ELSE <<x>> \o s

\* sorted(s, reverse=True)
RECURSIVE SortDesc(_)
SortDesc(s) == IF s = <<>> THEN <<>> ELSE InsertDesc(SortDesc(Tail(s)), Head(s))

\* s[:n]
Take(s, n) == SubSeq(s, 1, Min(n, Len(s)))

\* ------------------------------------------------------- pygame.Rect
Rect(x, y, w, h) == [x |-> x, y |-> y, w |-> w, h |-> h]
Left(r) == r.x
Top(r) == r.y
Right(r) == r.x + r.w
Bottom(r) == r.y + r.h
CenterX(r) == r.x + r.w \div 2
CenterY(r) == r.y + r.h \div 2

\* Rect.colliderect: strict overlap, an empty rectangle never collides.
colliderect(a, b) ==
    /\ a.w > 0 /\ a.h > 0 /\ b.w > 0 /\ b.h > 0
    /\ a.x < b.x + b.w
    /\ a.y < b.y + b.h
    /\ a.x + a.w > b.x
    /\ a.y + a.h > b.y

\* ----------------------------------------------------------- highscores
\* save_highscores writes sorted(top, reverse=True)[:5].
save_highscores(top) == Take(SortDesc(top), 5)

\* ------------------------------------------------------------- Bullet
Bullet(x, y, vy, damage, is_player) ==
    [rect |-> Rect(x - 2, y - 8, 4, 12), vy |-> vy, damage |-> damage,
     is_player |-> is_player]

\* Variant: the displacement is taken from the whole seconds of dt.
BulletUpdateWholeSeconds(b, dt) ==
    [b EXCEPT !.rect.y = b.rect.y + Trunc(b.vy * (dt \div 1000), 1)]

\* Bullet.update: the moved bullet; BulletAlive is its alive flag.
BulletUpdate(b, dt) ==
    [b EXCEPT !.rect.y = b.rect.y + IntOfProduct(b.vy, dt)]

BulletAlive(b) == ~(Bottom(b.rect) < 0 \/ Top(b.rect) > HEIGHT)

\* ------------------------------------------------------------- Player
\* Player(x, y): rect.centerx = x, rect.bottom = y.
Player(x, y) ==
    [rect |-> Rect(x - PLAYER_W \div 2, y - PLAYER_H, PLAYER_W, PLAYER_H),
     shoot_timer |-> Seconds(0), lives |-> PLAYER_LIVES, invuln_timer |-> Seconds(0)]

reset_position(p) ==
    [p EXCEPT !.rect.x = WIDTH \div 2 - PLAYER_W \div 2,
              !.rect.y = (HEIGHT - 30) - PLAYER_H]

\* Variant: the position is not clamped to the walls.
PlayerUpdateNoClamp(p, dt, keys) ==
    LET move == (IF keys.left THEN -1 ELSE 0) + (IF keys.right THEN 1 ELSE 0)
    IN  [p EXCEPT !.rect.x = p.rect.x + IntOfProduct(move * PLAYER_SPEED, dt),
                  !.shoot_timer = IF IsPositive(p.shoot_timer)
                                  THEN FloatSub(p.shoot_timer, dt)
                                  ELSE p.shoot_timer,
                  !.invuln_timer = IF IsPositive(p.invuln_timer)
                                   THEN FloatSub(p.invuln_timer, dt)
                                   ELSE p.invuln_timer]

\* keys: [left, right, space], the pressed state of LEFT/A, RIGHT/D, SPACE.
PlayerUpdate(p, dt, keys) ==
    LET move == (IF keys.left THEN -1 ELSE 0) + (IF keys.right THEN 1 ELSE 0)
        x1 == p.rect.x + IntOfProduct(move * PLAYER_SPEED, dt)
        x2 == Max(10, x1)
        x3 == Min(WIDTH - 10, x2 + PLAYER_W) - PLAYER_W
    IN  [p EXCEPT !.rect.x = x3,
                  !.shoot_timer = IF IsPositive(p.shoot_timer)
                                  THEN FloatSub(p.shoot_timer, dt)
                                  ELSE p.shoot_timer,
                  !.invuln_timer = IF IsPositive(p.invuln_timer)
                                   THEN FloatSub(p.invuln_timer, dt)
                                   ELSE p.invuln_timer]

can_shoot(p, current_player_bullets) ==
    ~IsPositive(p.shoot_timer) /\ current_player_bullets < PLAYER_MAX_BULLETS

\* Player.shoot: the player with the cooldown restarted, and the new bullet.
PlayerShoot(p) == [p EXCEPT !.shoot_timer = Seconds(PLAYER_CD_MS)]
PlayerShot(p) == Bullet(CenterX(p.rect), Top(p.rect) - 6, PLAYER_BULLET_SPEED, 1, TRUE)

\* Player.hit: the return value and the player afterwards.
HitReturns(p, godmode) == ~(IsPositive(p.invuln_timer) \/ godmode)
\* Variant: the hit ignores the invulnerability timer.
PlayerHitIgnoresTimer(p, godmode) ==
    IF godmode THEN p
    ELSE [p EXCEPT !.lives = p.lives - 1, !.invuln_timer = Seconds(INVULN_MS)]

PlayerHit(p, godmode) ==
    IF IsPositive(p.invuln_timer) \/ godmode THEN p
    ELSE [p EXCEPT !.lives = p.lives - 1, !.invuln_timer = Seconds(INVULN_MS)]

\* -------------------------------------------------------------- Enemy
EnemyHp(etype) == IF etype = "tough" THEN 2 ELSE 1
EnemyPoints(etype) ==
    IF etype = "common" THEN 10 ELSE IF etype = "tough" THEN 20 ELSE 30

Enemy(x, y, etype, row_idx) ==
    [rect |-> Rect(x, y, 44, 28), type |-> etype, row_idx |-> row_idx,
     hp |-> EnemyHp(etype), points |-> EnemyPoints(etype)]

\* Variant: any hit takes every hit point.
take_damageLethal(e, dmg) == [e EXCEPT !.hp = 0]

take_damage(e, dmg) == [e EXCEPT !.hp = e.hp - dmg]

\* Optional values: None is <<>>, an object x is <<x>>.
None == <<>>
Some(x) == <<x>>

\* ---------------------------------------------------------- EnemyGrid
\* The random.random() draws of EnemyGrid.__init__, in hundredths, for the
\* grid cell (row, col): draw 1 makes every enemy common, draw 2 mixes in a
\* column pattern of tough enemies and one shooter.
Draws == {1, 2}
TypeDraw(draw, row, col) ==
    IF draw = 1 THEN 50
    ELSE IF row = ENEMY_ROWS - 1 /\ col = 1 THEN 2
    ELSE IF col % 4 = 0 THEN 10
    ELSE 50

\* The type chosen for a draw p (hundredths): p < 0.05, p < 0.30, else.
EnemyTypeOf(p) == IF p < 5 THEN "shooter" ELSE IF p < 30 THEN "tough" ELSE "common"

GridSpeed(wave) ==
    [num |-> ENEMY_START_SPEED * Pow(WAVE_SPEED_MULT.num, wave - 1),
     den |-> Pow(WAVE_SPEED_MULT.den, wave - 1)]

GridFireRate(wave) ==
    [num |-> ENEMY_FIRE_RATE.num * Pow(WAVE_FIRE_MULT.num, wave - 1),
     den |-> ENEMY_FIRE_RATE.den * Pow(WAVE_FIRE_MULT.den, wave - 1)]

\* EnemyGrid.__init__: row-major list of ENEMY_ROWS x ENEMY_COLS enemies.
EnemyGrid(wave, draw) ==
    [enemies |-> [i \in 1..(ENEMY_ROWS * ENEMY_COLS) |->
                    LET row == (i - 1) \div ENEMY_COLS
                        col == (i - 1) % ENEMY_COLS
                    IN  Enemy(60 + col * 70, 70 + row * 50,
                              EnemyTypeOf(TypeDraw(draw, row, col)), row)],
     dir |-> 1,
     speed |-> GridSpeed(wave),
     fire_rate |-> GridFireRate(wave)]

GridAlive(g) == Len(g.enemies)

\* EnemyGrid.bounds: the bounding box of the enemies, Rect(0,0,0,0) if none.
GridBounds(g) ==
    IF g.enemies = <<>> THEN Rect(0, 0, 0, 0)
    ELSE LET left == SeqMin([i \in 1..Len(g.enemies) |-> Left(g.enemies[i].rect)])
             right == SeqMax([i \in 1..Len(g.enemies) |-> Right(g.enemies[i].rect)])
             top == SeqMin([i \in 1..Len(g.enemies) |-> Top(g.enemies[i].rect)])
             bottom == SeqMax([i \in 1..Len(g.enemies) |-> Bottom(g.enemies[i].rect)])
         IN  Rect(left, top, right - left, bottom - top)

\* The <<speed, alive, ms>> with ms <= 5000 at which the float product
\* speed * accel * dt falls just short of the integer the exact product is;
\* no speed of a later wave has such a point.
GridDxShort ==
    {<<72, 20, 2500>>, <<72, 20, 5000>>, <<72, 22, 5000>>, <<72, 28, 700>>,
     <<72, 28, 1400>>, <<72, 28, 2300>>, <<72, 28, 2800>>, <<72, 28, 4100>>,
     <<72, 28, 4600>>, <<72, 32, 625>>, <<72, 32, 1250>>, <<72, 32, 1875>>,
     <<72, 32, 2500>>, <<72, 32, 3750>>, <<72, 32, 4375>>, <<72, 32, 5000>>,
     <<72, 42, 5000>>}

\* dx = int(dir * speed * accel * dt), accel = 1 + 0.6 * (1 - alive / N).
GridDx(g, dt) ==
    LET N == ENEMY_ROWS * ENEMY_COLS
        exact == Trunc(g.dir * g.speed.num * (10 * N + 6 * (N - GridAlive(g))) * dt,
                       g.speed.den * 10 * N * 1000)
    IN  IF g.speed.den = 1 /\ <<g.speed.num, GridAlive(g), dt>> \in GridDxShort
        THEN exact - g.dir
        ELSE exact

GridMoved(g, dt) ==
    LET dx == GridDx(g, dt)
    IN  [g EXCEPT !.enemies = [i \in 1..Len(g.enemies) |->
            [g.enemies[i] EXCEPT !.rect.x = g.enemies[i].rect.x + dx]]]

\* Variant: the edge test without the direction of travel.
HitEdgeAnyDirection(g) ==
    LET b == GridBounds(g)
    IN  Left(b) <= EDGE_MARGIN \/ Right(b) >= WIDTH - EDGE_MARGIN

\* The edge test of EnemyGrid.update, on the grid after the horizontal march.
HitEdge(g) ==
    LET b == GridBounds(g)
    IN  \/ (Left(b) <= EDGE_MARGIN /\ g.dir < 0)
        \/ (Right(b) >= WIDTH - EDGE_MARGIN /\ g.dir > 0)

GridUpdate(g, dt) ==
    LET m == GridMoved(g, dt)
    IN  IF HitEdge(m)
        THEN [m EXCEPT !.dir = -m.dir,
                       !.enemies = [i \in 1..Len(m.enemies) |->
                          [m.enemies[i] EXCEPT !.rect.y = m.enemies[i].rect.y + ENEMY_STEP_DOWN]]]
        ELSE m

\* The column bucket of an enemy: centerx // 70.
ColumnOf(e) == CenterX(e.rect) \div 70

\* The keys of the dict cols, in insertion order (first appearance in the list).
RECURSIVE ColumnKeys(_, _)
ColumnKeys(enemies, seen) ==
    IF enemies = <<>> THEN <<>>
    ELSE LET c == ColumnOf(Head(enemies))
         IN  IF c \in seen THEN ColumnKeys(Tail(enemies), seen)
             ELSE <<c>> \o ColumnKeys(Tail(enemies), seen \cup {c})

\* Variant: the first enemy of the bucket, in list order, whatever its height.
ColumnShooterFirst(enemies, col) ==
    LET I == {i \in 1..Len(enemies) : ColumnOf(enemies[i]) = col}
    IN  enemies[CHOOSE k \in I : \A j \in I : k <= j]

\* cols[col]: the first enemy of the bucket, in list order, with the largest
\* bottom (a later enemy replaces the entry only when strictly lower).
ColumnShooter(enemies, col) ==
    LET I == {i \in 1..Len(enemies) : ColumnOf(enemies[i]) = col}
        i == CHOOSE k \in I :
               \A j \in I : \/ Bottom(enemies[k].rect) > Bottom(enemies[j].rect)
                            \/ (Bottom(enemies[k].rect) = Bottom(enemies[j].rect) /\ k <= j)
    IN  enemies[i]

EnemyShot(shooter) ==
    Bullet(CenterX(shooter.rect), Bottom(shooter.rect) + 6, ENEMY_BULLET_SPEED, 1, FALSE)

EnemyBulletCount(bullets) == Cardinality({i \in 1..Len(bullets) : ~bullets[i].is_player})
PlayerBulletCount(bullets) == Cardinality({i \in 1..Len(bullets) : bullets[i].is_player})

\* The outcomes the two random calls of try_enemy_shot can have: pick = 0 is
\* random.random() >= fire_rate / FPS, pick = k is a shot by the k-th entry
\* of list(cols.values()).  The model explores the first MaxShooters entries.
\* The pick is what the calls return when try_enemy_shot gets to them; at the
\* cap it returns before them and the pick has no effect.
ShotPicks(g, bullets) ==
    (IF g.fire_rate.num < g.fire_rate.den * FPS THEN {0} ELSE {})
    \cup (IF g.fire_rate.num > 0
          THEN 1..Min(MaxShooters, Len(ColumnKeys(g.enemies, {})))
          ELSE {})

\* Variant: the cap is compared with > and a seventh bullet is let through.
try_enemy_shotPastCap(g, bullets, max_enemy_bullets, pick) ==
    IF EnemyBulletCount(bullets) > max_enemy_bullets \/ GridAlive(g) = 0
    THEN bullets
    ELSE IF pick = 0 THEN bullets
    ELSE Append(bullets,
                EnemyShot(ColumnShooter(g.enemies, ColumnKeys(g.enemies, {})[pick])))

\* EnemyGrid.try_enemy_shot
try_enemy_shot(g, bullets, max_enemy_bullets, pick) ==
    IF EnemyBulletCount(bullets) >= max_enemy_bullets \/ GridAlive(g) = 0
    THEN bullets
    ELSE IF pick = 0 THEN bullets
    ELSE Append(bullets,
                EnemyShot(ColumnShooter(g.enemies, ColumnKeys(g.enemies, {})[pick])))

\* --------------------------------------------------------------- Boss
Boss(y) == [rect |-> Rect(-80, y, 60, 24)]
BossUpdate(b, dt) == [b EXCEPT !.rect.x = b.rect.x + IntOfProduct(BOSS_SPEED, dt)]
BossAlive(b) == ~(Left(b.rect) > WIDTH + 40)

\* The values _rand_boss_timer is taken to return: the ends of
\* random.uniform(BOSS_CD_MIN, BOSS_CD_MAX).
BossTimers == {Seconds(BOSS_CD_MIN), Seconds(BOSS_CD_MAX)}

\* ------------------------------------------------------------ Shields
ShieldPiece(x, y) == [rect |-> Rect(x, y, SHIELD_SEG_SIZE, SHIELD_SEG_SIZE), hp |-> SHIELD_SEG_HP]

RECURSIVE ShieldCells(_)
\* The (cluster, row, col) cells of the pattern from cell number n on, in
\* construction order, the bottom-row corners skipped.
ShieldCells(n) ==
    LET per == SHIELD_SEG_ROWS * SHIELD_SEG_COLS
        i == n \div per
        r == (n % per) \div SHIELD_SEG_COLS
        c == n % SHIELD_SEG_COLS
    IN  IF n >= SHIELD_COUNT * per THEN <<>>
        ELSE IF r = SHIELD_SEG_ROWS - 1 /\ (c = 0 \/ c = SHIELD_SEG_COLS - 1)
             THEN ShieldCells(n + 1)
             ELSE <<[i |-> i, r |-> r, c |-> c]>> \o ShieldCells(n + 1)

ShieldPieceAt(cell) ==
    LET margin_x == 80
        spacing == (WIDTH - 2 * margin_x) \div (SHIELD_COUNT - 1)
        base_y == HEIGHT - 180
        left == margin_x + cell.i * spacing - (SHIELD_SEG_COLS * SHIELD_SEG_SIZE) \div 2
    IN  ShieldPiece(left + cell.c * SHIELD_SEG_SIZE, base_y + cell.r * SHIELD_SEG_SIZE)

\* Shields.__init__: the list of pieces.
Shields == LET cells == ShieldCells(0)
           IN  [k \in 1..Len(cells) |-> ShieldPieceAt(cells[k])]

\* Index of the first piece, in list order, that the rectangle hits; 0 if none.
FirstPieceHit(pieces, r) ==
    LET I == {i \in 1..Len(pieces) : colliderect(pieces[i].rect, r)}
    IN  IF I = {} THEN 0 ELSE CHOOSE i \in I : \A j \in I : i <= j

\* ShieldPiece.hit
ShieldPieceHit(p) == [p EXCEPT !.hp = p.hp - 1]

\* Variant: a piece that reaches 0 hp stays in the list.
collide_bulletKeepsDead(pieces, b) ==
    LET i == FirstPieceHit(pieces, b.rect)
    IN  IF i = 0 THEN [hit |-> FALSE, pieces |-> pieces]
        ELSE [hit |-> TRUE, pieces |-> [pieces EXCEPT ![i] = ShieldPieceHit(pieces[i])]]

\* Shields.collide_bullet: the return value and the pieces afterwards.
collide_bullet(pieces, b) ==
    LET i == FirstPieceHit(pieces, b.rect)
    IN  IF i = 0 THEN [hit |-> FALSE, pieces |-> pieces]
        ELSE LET p == ShieldPieceHit(pieces[i])
             IN  [hit |-> TRUE,
                  pieces |-> IF p.hp <= 0 THEN RemoveAt(pieces, i)
                             ELSE [pieces EXCEPT ![i] = p]]

\* ================================================================ Game
\* The operators below take and return the Game object as a record g with
\* the attributes scene, player, bullets, shields, wave, score, combo_mult,
\* last_kill_time, grid, boss, next_boss_time, highscores and
\* just_made_highscore.  g.saves lists the tables handed to save_highscores
\* during the frame, g.new_grid tells that an EnemyGrid was constructed.

\* Variant: the points are taken with the multiplier of the previous kill.
score_addStaleMult(g, base_points, t) ==
    LET mult == IF WithinWindow(t, g.last_kill_time, COMBO_WINDOW)
                THEN g.combo_mult + COMBO_STEP
                ELSE 0
        pts == RoundHalfEven(base_points * (10 + g.combo_mult), 10)
    IN  [g EXCEPT !.combo_mult = mult, !.last_kill_time = t, !.score = g.score + pts]

\* Game.score_add, t = time.time() in ms.
score_add(g, base_points, t) ==
    LET mult == IF WithinWindow(t, g.last_kill_time, COMBO_WINDOW)
                THEN g.combo_mult + COMBO_STEP
                ELSE 0
        pts == RoundHalfEven(base_points * (10 + mult), 10)
    IN  [g EXCEPT !.combo_mult = mult, !.last_kill_time = t, !.score = g.score + pts]

\* Game.game_over.  top aliases the list stored in self.highscores when the
\* key "top" exists, so the append at line 766 is seen by the membership
\* test of line 768; without the key, get() returns a fresh [] each time.
game_over(g) ==
    LET appended == IF g.highscores.has_top
                    THEN Append(g.highscores.top, g.score)
                    ELSE <<g.score>>
        stored == IF g.highscores.has_top THEN appended ELSE <<>>
        top == Take(SortDesc(appended), 5)
    IN  [g EXCEPT !.just_made_highscore = InSeq(g.score, top) /\ ~InSeq(g.score, stored),
                  !.saves = Append(g.saves, top),
                  !.highscores = [has_top |-> TRUE, top |-> top],
                  !.scene = SCENE_GAME_OVER]

\* Index of the first enemy, in list order, that the rectangle hits; 0 if none.
FirstEnemyHit(enemies, r) ==
    LET I == {i \in 1..Len(enemies) : colliderect(enemies[i].rect, r)}
    IN  IF I = {} THEN 0 ELSE CHOOSE i \in I : \A j \in I : i <= j

\* Variant: enemies are tested before the shields and the boss.
PlayerBulletStepEnemyFirst(g, b, t) ==
    LET i == FirstEnemyHit(g.grid.enemies, b.rect)
        sc == collide_bullet(g.shields, b)
    IN  IF i # 0
        THEN LET e == take_damage(g.grid.enemies[i], b.damage)
                 g1 == [g EXCEPT !.bullets = RemoveFirst(g.bullets, b)]
             IN  IF e.hp <= 0
                 THEN score_add([g1 EXCEPT !.grid.enemies = RemoveAt(g.grid.enemies, i)],
                                e.points, t)
                 ELSE [g1 EXCEPT !.grid.enemies[i] = e]
        ELSE IF sc.hit
        THEN [g EXCEPT !.shields = sc.pieces, !.bullets = RemoveFirst(g.bullets, b)]
        ELSE IF g.boss # None /\ colliderect(b.rect, g.boss[1].rect)
        THEN [score_add(g, BOSS_BONUS, t) EXCEPT !.boss = None,
                                                 !.bullets = RemoveFirst(g.bullets, b)]
        ELSE g

\* Variant: an enemy brought to 0 hit points is scored but stays in the grid.
PlayerBulletStepKeepsDead(g, b, t) ==
    LET sc == collide_bullet(g.shields, b)
    IN  IF sc.hit
        THEN [g EXCEPT !.shields = sc.pieces, !.bullets = RemoveFirst(g.bullets, b)]
        ELSE IF g.boss # None /\ colliderect(b.rect, g.boss[1].rect)
        THEN [score_add(g, BOSS_BONUS, t) EXCEPT !.boss = None,
                                                 !.bullets = RemoveFirst(g.bullets, b)]
        ELSE LET i == FirstEnemyHit(g.grid.enemies, b.rect)
             IN  IF i = 0 THEN g
                 ELSE LET e == take_damage(g.grid.enemies[i], b.damage)
                          g1 == [g EXCEPT !.bullets = RemoveFirst(g.bullets, b),
                                          !.grid.enemies[i] = e]
                      IN  IF e.hp <= 0 THEN score_add(g1, e.points, t) ELSE g1

\* handle_collisions, first loop, one player bullet b.
PlayerBulletStep(g, b, t) ==
    LET sc == collide_bullet(g.shields, b)
    IN  IF sc.hit
        THEN [g EXCEPT !.shields = sc.pieces, !.bullets = RemoveFirst(g.bullets, b)]
        ELSE IF g.boss # None /\ colliderect(b.rect, g.boss[1].rect)
        THEN [score_add(g, BOSS_BONUS, t) EXCEPT !.boss = None,
                                                 !.bullets = RemoveFirst(g.bullets, b)]
        ELSE LET i == FirstEnemyHit(g.grid.enemies, b.rect)
             IN  IF i = 0 THEN g
                 ELSE LET e == take_damage(g.grid.enemies[i], b.damage)
                          g1 == [g EXCEPT !.bullets = RemoveFirst(g.bullets, b)]
                      IN  IF e.hp <= 0
                          THEN score_add([g1 EXCEPT !.grid.enemies = RemoveAt(g.grid.enemies, i)],
                                         e.points, t)
                          ELSE [g1 EXCEPT !.grid.enemies[i] = e]

\* Variant: the game ends only below 0 lives.
EnemyBulletStepLateGameOver(g, b, godmode) ==
    LET sc == collide_bullet(g.shields, b)
    IN  IF sc.hit
        THEN [g EXCEPT !.shields = sc.pieces, !.bullets = RemoveFirst(g.bullets, b)]
        ELSE IF colliderect(b.rect, g.player.rect)
        THEN LET g1 == [g EXCEPT !.player = PlayerHit(g.player, godmode),
                                 !.bullets = RemoveFirst(g.bullets, b)]
             IN  IF g1.player.lives < 0 /\ ~godmode THEN game_over(g1) ELSE g1
        ELSE g

\* handle_collisions, second loop, one enemy bullet b.
EnemyBulletStep(g, b, godmode) ==
    LET sc == collide_bullet(g.shields, b)
    IN  IF sc.hit
        THEN [g EXCEPT !.shields = sc.pieces, !.bullets = RemoveFirst(g.bullets, b)]
        ELSE IF colliderect(b.rect, g.player.rect)
        THEN LET g1 == [g EXCEPT !.player = PlayerHit(g.player, godmode),
                                 !.bullets = RemoveFirst(g.bullets, b)]
             IN  IF g1.player.lives <= 0 /\ ~godmode THEN game_over(g1) ELSE g1
        ELSE g

\* The two loops run over list(self.bullets), a copy taken when the loop starts.
RECURSIVE PlayerBulletLoop(_, _, _)
PlayerBulletLoop(g, bs, t) ==
    IF bs = <<>> THEN g
    ELSE PlayerBulletLoop(IF Head(bs).is_player THEN PlayerBulletStep(g, Head(bs), t) ELSE g,
                          Tail(bs), t)

RECURSIVE EnemyBulletLoop(_, _, _)
EnemyBulletLoop(g, bs, godmode) ==
    IF bs = <<>> THEN g
    ELSE EnemyBulletLoop(IF Head(bs).is_player THEN g ELSE EnemyBulletStep(g, Head(bs), godmode),
                         Tail(bs), godmode)

\* An enemy that touches the player or has reached the bottom line.
Breaching(e, p) == colliderect(e.rect, p.rect) \/ Bottom(e.rect) >= HEIGHT - BREACH_MARGIN

AnyBreach(g) == \E i \in 1..Len(g.grid.enemies) : Breaching(g.grid.enemies[i], g.player)

\* Variant: the penalty leaves the player where it stands.
BreachStepKeepsPosition(g, godmode, draw) ==
    IF ~AnyBreach(g) THEN g
    ELSE LET g1 == [g EXCEPT !.player = PlayerHit(g.player, godmode),
                             !.grid = EnemyGrid(Max(1, g.wave), draw),
                             !.new_grid = TRUE,
                             !.bullets = <<>>]
         IN  IF g1.player.lives <= 0 /\ ~godmode THEN game_over(g1) ELSE g1

\* handle_collisions, third part; draw is the type draw of the new grid.
BreachStep(g, godmode, draw) ==
    IF ~AnyBreach(g) THEN g
    ELSE LET g1 == [g EXCEPT !.player = reset_position(PlayerHit(g.player, godmode)),
                             !.grid = EnemyGrid(Max(1, g.wave), draw),
                             !.new_grid = TRUE,
                             !.bullets = <<>>]
         IN  IF g1.player.lives <= 0 /\ ~godmode THEN game_over(g1) ELSE g1

\* The state before the third part of handle_collisions.
BulletLoops(g, godmode, t) ==
    LET g1 == PlayerBulletLoop(g, g.bullets, t)
    IN  EnemyBulletLoop(g1, g1.bullets, godmode)

handle_collisions(g, godmode, t, draw) == BreachStep(BulletLoops(g, godmode, t), godmode, draw)

\* Variant: the new grid is built for the wave that just ended.
next_waveSameSpeed(g, draw) ==
    [g EXCEPT !.wave = g.wave + 1,
              !.grid = EnemyGrid(g.wave, draw),
              !.new_grid = TRUE,
              !.bullets = <<>>]

\* Variant: the next wave also rebuilds the shields.
next_waveNewShields(g, draw) ==
    [g EXCEPT !.wave = g.wave + 1,
              !.grid = EnemyGrid(g.wave + 1, draw),
              !.new_grid = TRUE,
              !.bullets = <<>>,
              !.shields = Shields]

\* Game._next_wave
next_wave(g, draw) ==
    [g EXCEPT !.wave = g.wave + 1,
              !.grid = EnemyGrid(g.wave + 1, draw),
              !.new_grid = TRUE,
              !.bullets = <<>>]

\* Variant: the Player of the previous run is kept and only sent back to the
\* start position.
start_new_gameKeepsPlayer(g, reset_scores, draw, btimer) ==
    [g EXCEPT !.player = reset_position(g.player),
              !.bullets = <<>>,
              !.shields = Shields,
              !.wave = 1,
              !.score = IF reset_scores THEN 0 ELSE g.score,
              !.combo_mult = 0,
              !.last_kill_time = NEVER_KILLED,
              !.grid = EnemyGrid(1, draw),
              !.boss = None,
              !.next_boss_time = btimer,
              !.just_made_highscore = FALSE]

\* Game._start_new_game
start_new_game(g, reset_scores, draw, btimer) ==
    [g EXCEPT !.player = Player(WIDTH \div 2, HEIGHT - 30),
              !.bullets = <<>>,
              !.shields = Shields,
              !.wave = 1,
              !.score = IF reset_scores THEN 0 ELSE g.score,
              !.combo_mult = 0,
              !.last_kill_time = NEVER_KILLED,
              !.grid = EnemyGrid(1, draw),
              !.boss = None,
              !.next_boss_time = btimer,
              !.just_made_highscore = FALSE]

\* update_game, steps 1 to 3: everything that moves, up to handle_collisions.
\* pick is the outcome of try_enemy_shot's random calls, btimer the value of
\* _rand_boss_timer should a boss be spawned.
BossSpawns(g, dt) ==
    /\ ~IsPositive(FloatSub(g.next_boss_time, dt))
    /\ g.boss = None
    /\ g.scene = SCENE_PLAYING

Movement(g, dt, keys, pick, btimer) ==
    LET p1 == PlayerUpdate(g.player, dt, keys)
        shoots == keys.space /\ can_shoot(p1, PlayerBulletCount(g.bullets))
        p2 == IF shoots THEN PlayerShoot(p1) ELSE p1
        b1 == IF shoots THEN Append(g.bullets, PlayerShot(p1)) ELSE g.bullets
        grid1 == GridUpdate(g.grid, dt)
        b2 == try_enemy_shot(grid1, b1, ENEMY_MAX_BULLETS, pick)
        spawn == BossSpawns(g, dt)
        boss1 == IF spawn THEN Some(Boss(50)) ELSE g.boss
        nbt == IF spawn THEN btimer ELSE FloatSub(g.next_boss_time, dt)
        boss2 == IF boss1 = None THEN None
                 ELSE LET b == BossUpdate(boss1[1], dt)
                      IN  IF BossAlive(b) THEN Some(b) ELSE None
        moved == [i \in 1..Len(b2) |-> BulletUpdate(b2[i], dt)]
        b3 == SelectSeq(moved, BulletAlive)
    IN  [g EXCEPT !.player = p2, !.bullets = b3, !.grid = grid1,
                  !.boss = boss2, !.next_boss_time = nbt]

\* Game.update_game
update_game(g, godmode, dt, keys, pick, btimer, draw, t) ==
    LET g1 == handle_collisions(Movement(g, dt, keys, pick, btimer), godmode, t, draw)
    IN  IF GridAlive(g1.grid) = 0 THEN next_wave(g1, draw) ELSE g1

\* ============================================================== state
VARIABLES
    scene,               \* Game.scene
    running,             \* the local running of Game.run
    exited,              \* the loop of Game.run has ended (pygame.quit)
    GODMODE,             \* the module-level debug flag
    player, bullets, grid, shields, boss, next_boss_time,
    wave, score, combo_mult, last_kill_time,
    highscores,          \* Game.highscores: [has_top, top]
    just_made_highscore,
    highscore_file,      \* highscore.json: NoFile, TableFile(top), NoTopFile
                         \*   or BrokenFile
    now,                 \* the clock, ms: time.time() of the current iteration
    nsteps,              \* events handled and scene updates run so far
    last_op,             \* the handler that made the last step
    pre,                 \* None, or Some(observation of the last update_game):
                         \*   the Game at the entry of handle_collisions and the
                         \*   inputs of the frame
    hit_age,             \* ms of update_game time since this Player last lost
                         \*   a life, saturating at INVULN_MS
    kill_age             \* ms of update_game time since the last score_add of
                         \*   the run, saturating at COMBO_WINDOW + 1

vars == <<scene, running, exited, GODMODE, player, bullets, grid, shields, boss,
          next_boss_time, wave, score, combo_mult, last_kill_time, highscores,
          just_made_highscore, highscore_file, now, nsteps, last_op, pre, hit_age, kill_age>>

\* The Game object as a record.
Self ==
    [scene |-> scene, player |-> player, bullets |-> bullets, grid |-> grid,
     shields |-> shields, boss |-> boss, next_boss_time |-> next_boss_time,
     wave |-> wave, score |-> score, combo_mult |-> combo_mult,
     last_kill_time |-> last_kill_time, highscores |-> highscores,
     just_made_highscore |-> just_made_highscore,
     saves |-> <<>>, new_grid |-> FALSE]

\* Assign the attributes of the Game record g to the next state.
Becomes(g) ==
    /\ scene' = g.scene
    /\ player' = g.player
    /\ bullets' = g.bullets
    /\ grid' = g.grid
    /\ shields' = g.shields
    /\ boss' = g.boss
    /\ next_boss_time' = g.next_boss_time
    /\ wave' = g.wave
    /\ score' = g.score
    /\ combo_mult' = g.combo_mult
    /\ last_kill_time' = g.last_kill_time
    /\ highscores' = g.highscores
    /\ just_made_highscore' = g.just_made_highscore

\* Frame times (ms) the model explores: the nominal 60 Hz frame and a hitch.
DtSet == {17, 50}

\* The pressed-key states pygame.key.get_pressed can report.
KeyStates == [left : BOOLEAN, right : BOOLEAN, space : BOOLEAN]

\* What highscore.json can hold, as load_highscores tells the cases apart:
\* there is no file; the file is a JSON object whose "top" is the list top;
\* the file is a JSON object without the key "top"; the file is anything
\* else (text that is not JSON, a JSON value that is no object, an object
\* whose "top" is no list).
NoFile == [kind |-> "absent", top |-> <<>>]
TableFile(top) == [kind |-> "table", top |-> top]
NoTopFile == [kind |-> "object", top |-> <<>>]
BrokenFile == [kind |-> "broken", top |-> <<>>]

\* Contents of highscore.json at startup: no file, a file this program wrote,
\* a file from elsewhere whose "top" is a list in no order, six long, an
\* object without "top", and a file cut short by a save that failed.
HighscoreFiles ==
    {NoFile, TableFile(<<900, 700, 500, 300, 100>>),
     TableFile(<<300, 900, 500, 700, 100, 200>>), NoTopFile, BrokenFile}

\* load_highscores: the object of the file as it is when data.get("top", [])
\* is a list, which it also is for an object without the key; the empty
\* table when there is no file or an exception was raised.
load_highscores(file) ==
    CASE file.kind = "table" -> [has_top |-> TRUE, top |-> file.top]
      [] file.kind = "object" -> [has_top |-> FALSE, top |-> <<>>]
      [] OTHER -> [has_top |-> TRUE, top |-> <<>>]

\* Game.__init__, which ends with _start_new_game(reset_scores=False).
Init ==
    \E file \in HighscoreFiles, draw \in Draws, btimer \in BossTimers :
        /\ scene = SCENE_MENU
        /\ running = TRUE
        /\ exited = FALSE
        /\ GODMODE = FALSE
        /\ player = Player(WIDTH \div 2, HEIGHT - 30)
        /\ bullets = <<>>
        /\ grid = EnemyGrid(1, draw)
        /\ shields = Shields
        /\ boss = None
        /\ next_boss_time = btimer
        /\ wave = 1
        /\ score = 0
        /\ combo_mult = 0
        /\ last_kill_time = NEVER_KILLED
        /\ highscores = load_highscores(file)
        /\ just_made_highscore = FALSE
        /\ highscore_file = file
        /\ now = 0
        /\ nsteps = 0
        /\ last_op = "init"
        /\ pre = None
        /\ hit_age = INVULN_MS
        /\ kill_age = COMBO_WINDOW + 1

\* ------------------------------------------------------------ key events
\* Events are handled one at a time, in queue order, before the scene update
\* of the iteration; an event that changes nothing is a stuttering step.
EventFrame(op) ==
    /\ ~exited
    /\ nsteps < MaxSteps
    /\ nsteps' = nsteps + 1
    /\ last_op' = op
    /\ pre' = None
    /\ UNCHANGED <<exited, highscore_file, now>>

\* Variant: Escape leaves the loop from every scene but GAME_OVER.
KeyEscapeQuitsPlaying ==
    /\ EventFrame("escape")
    /\ scene' = CASE scene = SCENE_PLAYING -> SCENE_PAUSED
                  [] scene = SCENE_GAME_OVER -> SCENE_MENU
                  [] OTHER -> scene
    /\ running' = IF scene # SCENE_GAME_OVER THEN FALSE ELSE running
    /\ UNCHANGED <<GODMODE, player, bullets, grid, shields, boss, next_boss_time,
                   wave, score, combo_mult, last_kill_time, highscores,
                   just_made_highscore, hit_age, kill_age>>

\* KEYDOWN K_ESCAPE
KeyEscape ==
    /\ EventFrame("escape")
    /\ scene' = CASE scene = SCENE_PLAYING -> SCENE_PAUSED
                  [] scene = SCENE_GAME_OVER -> SCENE_MENU
                  [] OTHER -> scene
    /\ running' = IF scene \in {SCENE_PAUSED, SCENE_MENU} THEN FALSE ELSE running
    /\ UNCHANGED <<GODMODE, player, bullets, grid, shields, boss, next_boss_time,
                   wave, score, combo_mult, last_kill_time, highscores,
                   just_made_highscore, hit_age, kill_age>>

\* KEYDOWN K_RETURN
KeyReturn ==
    /\ EventFrame("return")
    /\ scene # SCENE_PLAYING
    /\ \E draw \in Draws, btimer \in BossTimers :
        /\ Becomes(CASE scene = SCENE_MENU ->
                          [start_new_game(Self, TRUE, draw, btimer) EXCEPT !.scene = SCENE_PLAYING]
                     [] scene = SCENE_GAME_OVER -> [Self EXCEPT !.scene = SCENE_MENU]
                     [] OTHER -> [Self EXCEPT !.scene = SCENE_PLAYING])
    /\ hit_age' = IF scene = SCENE_MENU THEN INVULN_MS ELSE hit_age
    /\ kill_age' = IF scene = SCENE_MENU THEN COMBO_WINDOW + 1 ELSE kill_age
    /\ UNCHANGED <<running, GODMODE>>

\* KEYDOWN K_p
KeyP ==
    /\ EventFrame("p")
    /\ scene \in {SCENE_PLAYING, SCENE_PAUSED}
    /\ scene' = IF scene = SCENE_PLAYING THEN SCENE_PAUSED ELSE SCENE_PLAYING
    /\ UNCHANGED <<running, GODMODE, player, bullets, grid, shields, boss,
                   next_boss_time, wave, score, combo_mult, last_kill_time,
                   highscores, just_made_highscore, hit_age, kill_age>>

\* KEYDOWN K_F2: toggle god-mode
KeyF2 ==
    /\ EventFrame("f2")
    /\ GODMODE' = ~GODMODE
    /\ UNCHANGED <<scene, running, player, bullets, grid, shields, boss,
                   next_boss_time, wave, score, combo_mult, last_kill_time,
                   highscores, just_made_highscore, hit_age, kill_age>>

\* KEYDOWN K_F3 in PLAYING: skip wave
KeyF3 ==
    /\ EventFrame("f3")
    /\ scene = SCENE_PLAYING
    /\ grid' = [grid EXCEPT !.enemies = <<>>]
    /\ UNCHANGED <<scene, running, GODMODE, player, bullets, shields, boss,
                   next_boss_time, wave, score, combo_mult, last_kill_time,
                   highscores, just_made_highscore, hit_age, kill_age>>

\* pygame.QUIT
QuitEvent ==
    /\ EventFrame("quit")
    /\ running
    /\ running' = FALSE
    /\ UNCHANGED <<scene, GODMODE, player, bullets, grid, shields, boss,
                   next_boss_time, wave, score, combo_mult, last_kill_time,
                   highscores, just_made_highscore, hit_age, kill_age>>

\* ----------------------------------------------------------------- frame
\* update_game after the bullet loops of handle_collisions: the breach check
\* and the end-of-wave check.
FinishFrame(bl, godmode, draw) ==
    LET g1 == BreachStep(bl, godmode, draw)
    IN  IF GridAlive(g1.grid) = 0 THEN next_wave(g1, draw) ELSE g1

\* The picks try_enemy_shot has in this frame.
FramePicks(g, dt, keys) ==
    LET p1 == PlayerUpdate(g.player, dt, keys)
        b1 == IF keys.space /\ can_shoot(p1, PlayerBulletCount(g.bullets))
              THEN Append(g.bullets, PlayerShot(p1)) ELSE g.bullets
    IN  ShotPicks(GridUpdate(g.grid, dt), b1)

\* highscore.json after the save_highscores calls of a frame.  A call fails
\* in open() and leaves the file as it was, or it opens the file, which
\* empties it, and then writes its list or fails in json.dump with part of
\* the text written; lines 124-126 swallow either failure.  k is the last
\* call whose open() succeeded (0: none did, or no call was made), whole
\* tells whether that call wrote all of its text.
SavedFile(file, saves, k, whole) ==
    IF k = 0 THEN file
    ELSE IF whole THEN TableFile(save_highscores(saves[k]))
    ELSE BrokenFile

\* Variant: a save that fails raises out of game_over, before the table and
\* the scene are assigned.
UpdatePlayingSaveRaises(dt) ==
    \E keys \in KeyStates :
    \E pick \in FramePicks(Self, dt, keys) :
    \E btimer \in (IF BossSpawns(Self, dt) THEN BossTimers ELSE {Seconds(BOSS_CD_MIN)}) :
        LET t == now + dt
            age == Min(hit_age + dt, INVULN_MS)
        IN  \E m \in {Movement(Self, dt, keys, pick, btimer)} :
            \E bl \in {BulletLoops(m, GODMODE, t)} :
            \E draw \in (IF AnyBreach(bl) \/ GridAlive(bl.grid) = 0 THEN Draws ELSE {1}) :
            \E g \in {FinishFrame(bl, GODMODE, draw)} :
                /\ pre' = Some([game |-> m, t |-> t, godmode |-> GODMODE, dt |-> dt,
                                keys |-> keys, draw |-> draw, hit_age |-> age,
                                dir0 |-> grid.dir, pick |-> pick, btimer |-> btimer,
                                saves |-> g.saves])
                /\ hit_age' = IF g.player.lives < player.lives THEN 0 ELSE age
                /\ kill_age' = IF g.last_kill_time # last_kill_time THEN 0
                               ELSE Min(kill_age + dt, COMBO_WINDOW + 1)
                /\ \E k \in 0..Len(g.saves), whole \in BOOLEAN :
                     /\ highscore_file' = SavedFile(highscore_file, g.saves, k, whole)
                     /\ Becomes(IF g.saves # <<>> /\ (k = 0 \/ ~whole)
                                THEN [g EXCEPT !.scene = SCENE_PLAYING,
                                               !.highscores = highscores]
                                ELSE g)

\* One iteration of the loop of Game.run after its events: the update of the
\* current scene (draw changes no state); the loop ends when running is false.
UpdatePlaying(dt) ==
    \E keys \in KeyStates :
    \E pick \in FramePicks(Self, dt, keys) :
    \E btimer \in (IF BossSpawns(Self, dt) THEN BossTimers ELSE {Seconds(BOSS_CD_MIN)}) :
        LET t == now + dt
            age == Min(hit_age + dt, INVULN_MS)
        IN  \E m \in {Movement(Self, dt, keys, pick, btimer)} :
            \E bl \in {BulletLoops(m, GODMODE, t)} :
            \E draw \in (IF AnyBreach(bl) \/ GridAlive(bl.grid) = 0 THEN Draws ELSE {1}) :
            \E g \in {FinishFrame(bl, GODMODE, draw)} :
                /\ Becomes(g)
                /\ pre' = Some([game |-> m, t |-> t, godmode |-> GODMODE, dt |-> dt,
                                keys |-> keys, draw |-> draw, hit_age |-> age,
                                dir0 |-> grid.dir, pick |-> pick, btimer |-> btimer,
                                saves |-> g.saves])
                /\ hit_age' = IF g.player.lives < player.lives THEN 0 ELSE age
                /\ kill_age' = IF g.last_kill_time # last_kill_time THEN 0
                               ELSE Min(kill_age + dt, COMBO_WINDOW + 1)
                /\ \E k \in 0..Len(g.saves), whole \in BOOLEAN :
                     highscore_file' = SavedFile(highscore_file, g.saves, k, whole)

\* Variant: the simulation also runs while the game is paused.
FrameUpdatesPaused ==
    /\ ~exited
    /\ nsteps < MaxSteps
    /\ \E dt \in DtSet :
        /\ now' = now + dt
        /\ IF scene \in {SCENE_PLAYING, SCENE_PAUSED}
           THEN UpdatePlaying(dt)
           ELSE /\ pre' = None
                /\ UNCHANGED <<scene, player, bullets, grid, shields, boss, next_boss_time,
                               wave, score, combo_mult, last_kill_time, highscores,
                               just_made_highscore, highscore_file, hit_age, kill_age>>
    /\ nsteps' = nsteps + 1
    /\ exited' = ~running
    /\ last_op' = CASE scene = SCENE_MENU -> "update_menu"
                    [] scene = SCENE_PLAYING -> "update_game"
                    [] scene = SCENE_PAUSED -> "update_paused"
                    [] OTHER -> "update_game_over"
    /\ UNCHANGED <<running, GODMODE>>

Frame ==
    /\ ~exited
    /\ nsteps < MaxSteps
    /\ \E dt \in DtSet :
        /\ now' = now + dt
        /\ IF scene = SCENE_PLAYING
           THEN UpdatePlaying(dt)
           ELSE /\ pre' = None
                /\ UNCHANGED <<scene, player, bullets, grid, shields, boss, next_boss_time,
                               wave, score, combo_mult, last_kill_time, highscores,
                               just_made_highscore, highscore_file, hit_age, kill_age>>
    /\ nsteps' = nsteps + 1
    /\ exited' = ~running
    /\ last_op' = CASE scene = SCENE_MENU -> "update_menu"
                    [] scene = SCENE_PLAYING -> "update_game"
                    [] scene = SCENE_PAUSED -> "update_paused"
                    [] OTHER -> "update_game_over"
    /\ UNCHANGED <<running, GODMODE>>

Next == KeyEscape \/ KeyReturn \/ KeyP \/ KeyF2 \/ KeyF3 \/ QuitEvent \/ Frame

Spec == Init /\ [][Next]_vars

\* ------------------------------------------------------ mid-run states
\* The events the claims are about lie deep in a run (ten step-downs before
\* an enemy reaches the player, twenty seconds before a boss), so a second
\* specification also starts from states in the middle of a run.  Each of
\* them was taken from a run of src/spaceinvader.py: Game.run was fed the key
\* events and the frames listed above the state (frame time, pressed keys
\* and, where an enemy shot, the entry of list(cols.values()) that
\* random.choice returned; the clock read 0 at K_RETURN and advanced by the
\* frame times), and every field below is what the Game object then held
\* (has_top: self.highscores has the key "top"; file: highscore.json, which
\* the run found as the field shows unless a game over of the run wrote it).
\* hit_age and kill_age are the model's own counters over the same run.

\* EnemyGrid(w, draw) after marching ox pixels and k step-downs (dir is then
\* (-1)^k): the enemies keep[1], keep[2], ... (indices into the constructed
\* list, increasing) remain.
MarchedGrid(w, draw, ox, k, keep) ==
    LET g == EnemyGrid(w, draw)
    IN  [g EXCEPT !.dir = IF k % 2 = 0 THEN 1 ELSE -1,
                  !.enemies = [j \in 1..Len(keep) |->
                     [g.enemies[keep[j]] EXCEPT
                         !.rect.x = g.enemies[keep[j]].rect.x + ox,
                         !.rect.y = g.enemies[keep[j]].rect.y + k * ENEMY_STEP_DOWN]]]

\* The indices of the constructed enemy list without those in dead.
AllBut(dead) ==
    SelectSeq([i \in 1..(ENEMY_ROWS * ENEMY_COLS) |-> i], LAMBDA i : i \notin dead)

\* Shields after hits: piece i of the constructed list has hp[i] hit points
\* left (0: removed), every other piece is untouched.
WornShields(hp) ==
    SelectSeq([i \in 1..Len(Shields) |->
                  IF i \in DOMAIN hp THEN [Shields[i] EXCEPT !.hp = hp[i]] ELSE Shields[i]],
              LAMBDA p : p.hp > 0)

\* A bullet in flight with its rect at (x, y).
PlayerBulletAt(x, y) == [Bullet(x + 2, y + 8, PLAYER_BULLET_SPEED, 1, TRUE) EXCEPT !.rect.x = x]
EnemyBulletAt(x, y) == [Bullet(x + 2, y + 8, ENEMY_BULLET_SPEED, 1, FALSE) EXCEPT !.rect.x = x]

\* The boss on its way across the screen, its rect at x.
BossAt(x) == [Boss(50) EXCEPT !.rect.x = x]

\* The player with its rect at x and the two timers as given.
PlayerAt(x, lives, shoot, invuln) ==
    [Player(WIDTH \div 2, HEIGHT - 30) EXCEPT !.rect.x = x, !.lives = lives,
                                              !.shoot_timer = shoot,
                                              !.invuln_timer = invuln]

\* EdgeState: the grid is one pixel before the right margin, the player five pixels before the
\* right wall, an enemy bullet one frame above a shield. Inputs of the run:
\* K_RETURN; 17 ms RIGHT x 72; 17 ms no key x 101; 17 ms no key, column shot 1;
\* 17 ms no key x 11
EdgeState ==
    [scene |-> SCENE_PLAYING, godmode |-> FALSE,
     player |-> PlayerAt(735, 3, Seconds(0), Seconds(0)),
     bullets |-> <<EnemyBulletAt(254, 406)>>, grid |-> MarchedGrid(1, 1, 185, 0, AllBut({})),
     shields |-> Shields, boss |-> None, next_boss_time |-> [ms |-> 16855, err |-> 57589760],
     wave |-> 1, score |-> 0, combo_mult |-> 0, last_kill_time |-> NEVER_KILLED,
     has_top |-> TRUE, top |-> <<900, 700, 500, 300, 100>>, just_made_highscore |-> FALSE,
     file |-> TableFile(<<900, 700, 500, 300, 100>>), now |-> 3145, hit_age |-> 1500,
     kill_age |-> 1001]

\* TurnedState: the 50 ms frame that carried the grid over the right margin and turned it.
\* Inputs of the run:
\* K_RETURN; 17 ms RIGHT x 72; 17 ms no key x 101; 17 ms no key, column shot 1;
\* 17 ms no key x 11; 50 ms no key
TurnedState ==
    [scene |-> SCENE_PLAYING, godmode |-> FALSE,
     player |-> PlayerAt(735, 3, Seconds(0), Seconds(0)), bullets |-> <<>>,
     grid |-> MarchedGrid(1, 1, 188, 1, AllBut({})), shields |-> WornShields(17 :> 2),
     boss |-> None, next_boss_time |-> [ms |-> 16805, err |-> 57180160], wave |-> 1,
     score |-> 0, combo_mult |-> 0, last_kill_time |-> NEVER_KILLED, has_top |-> TRUE,
     top |-> <<900, 700, 500, 300, 100>>, just_made_highscore |-> FALSE,
     file |-> TableFile(<<900, 700, 500, 300, 100>>), now |-> 3195, hit_age |-> 1500,
     kill_age |-> 1001]

\* ToughState2: a player bullet is about to hit an untouched tough enemy. Inputs of the run:
\* K_RETURN (tough enemies in columns 0 and 4); 17 ms SPACE x 22
ToughState2 ==
    [scene |-> SCENE_PLAYING, godmode |-> FALSE,
     player |-> PlayerAt(375, 3, [ms |-> 148, err |-> -52224], Seconds(0)),
     bullets |-> <<PlayerBulletAt(398, 350), PlayerBulletAt(398, 470)>>,
     grid |-> MarchedGrid(1, 2, 22, 0, AllBut({})), shields |-> Shields, boss |-> None,
     next_boss_time |-> [ms |-> 19626, err |-> 6848512], wave |-> 1, score |-> 0,
     combo_mult |-> 0, last_kill_time |-> NEVER_KILLED, has_top |-> TRUE, top |-> <<>>,
     just_made_highscore |-> FALSE, file |-> NoFile, now |-> 374, hit_age |-> 1500,
     kill_age |-> 1001]

\* ToughState1: a player bullet is about to hit the tough enemy a second time. Inputs of the
\* run:
\* K_RETURN (tough enemies in columns 0 and 4); 17 ms SPACE x 37
ToughState1 ==
    [scene |-> SCENE_PLAYING, godmode |-> FALSE,
     player |-> PlayerAt(375, 3, [ms |-> 148, err |-> -52224], Seconds(0)),
     bullets |-> <<PlayerBulletAt(398, 350), PlayerBulletAt(398, 470)>>,
     grid |-> [MarchedGrid(1, 2, 37, 0, AllBut({})) EXCEPT !.enemies[45].hp = 1],
     shields |-> Shields, boss |-> None, next_boss_time |-> [ms |-> 19371, err |-> 11517952],
     wave |-> 1, score |-> 0, combo_mult |-> 0, last_kill_time |-> NEVER_KILLED,
     has_top |-> TRUE, top |-> <<>>, just_made_highscore |-> FALSE, file |-> NoFile,
     now |-> 629, hit_age |-> 1500, kill_age |-> 1001]

\* CrossfireState2: two lives, 21 ms of invulnerability left, an enemy bullet one frame above
\* the player. Inputs of the run:
\* K_RETURN; 17 ms SPACE x 400; 17 ms no key x 26; 17 ms no key, column shot 7;
\* 17 ms no key x 87; 17 ms no key, column shot 6; 17 ms no key x 67
CrossfireState2 ==
    [scene |-> SCENE_PLAYING, godmode |-> FALSE,
     player |-> PlayerAt(375, 2, [ms |-> -5, err |-> -66560], [ms |-> 21, err |-> 1154752]),
     bullets |-> <<EnemyBulletAt(423, 526)>>,
     grid |-> MarchedGrid(1, 1, 130, 2, AllBut({3, 4, 5, 6, 12, 19, 20, 21, 22, 27, 28, 29, 30,
         35, 36, 37, 38, 43, 44, 45, 46})), shields |-> Shields, boss |-> None,
     next_boss_time |-> [ms |-> 10106, err |-> 181174272], wave |-> 1, score |-> 316,
     combo_mult |-> 7, last_kill_time |-> 7242, has_top |-> TRUE,
     top |-> <<900, 700, 500, 300, 100>>, just_made_highscore |-> FALSE,
     file |-> TableFile(<<900, 700, 500, 300, 100>>), now |-> 9894, hit_age |-> 1479,
     kill_age |-> 1001]

\* CrossfireState1: the last life, no invulnerability, two enemy bullets above the player one
\* frame apart. Inputs of the run:
\* K_RETURN; 17 ms SPACE x 400; 17 ms no key x 26; 17 ms no key, column shot 7;
\* 17 ms no key x 87; 17 ms no key, column shot 6; 17 ms no key x 67; 50 ms no key;
\* 17 ms no key x 32; 17 ms no key, column shot 5 x 2; 17 ms no key x 66
CrossfireState1 ==
    [scene |-> SCENE_PLAYING, godmode |-> FALSE,
     player |-> PlayerAt(375, 1, [ms |-> -5, err |-> -66560], [ms |-> -13, err |-> 1153344]),
     bullets |-> <<EnemyBulletAt(387, 526), EnemyBulletAt(388, 521)>>,
     grid |-> MarchedGrid(1, 1, 138, 3, AllBut({3, 4, 5, 6, 12, 19, 20, 21, 22, 27, 28, 29, 30,
         35, 36, 37, 38, 43, 44, 45, 46})), shields |-> Shields, boss |-> None,
     next_boss_time |-> [ms |-> 8356, err |-> 211894272], wave |-> 1, score |-> 316,
     combo_mult |-> 7, last_kill_time |-> 7242, has_top |-> TRUE,
     top |-> <<900, 700, 500, 300, 100>>, just_made_highscore |-> FALSE,
     file |-> TableFile(<<900, 700, 500, 300, 100>>), now |-> 11644, hit_age |-> 1500,
     kill_age |-> 1001]

\* CrossfireGodState: CrossfireState1 after K_F2 switched god-mode on. Inputs of the run:
\* K_RETURN; 17 ms SPACE x 400; 17 ms no key x 26; 17 ms no key, column shot 7;
\* 17 ms no key x 87; 17 ms no key, column shot 6; 17 ms no key x 67; 50 ms no key;
\* 17 ms no key x 32; 17 ms no key, column shot 5 x 2; 17 ms no key x 66; K_F2
CrossfireGodState ==
    [scene |-> SCENE_PLAYING, godmode |-> TRUE,
     player |-> PlayerAt(375, 1, [ms |-> -5, err |-> -66560], [ms |-> -13, err |-> 1153344]),
     bullets |-> <<EnemyBulletAt(387, 526), EnemyBulletAt(388, 521)>>,
     grid |-> MarchedGrid(1, 1, 138, 3, AllBut({3, 4, 5, 6, 12, 19, 20, 21, 22, 27, 28, 29, 30,
         35, 36, 37, 38, 43, 44, 45, 46})), shields |-> Shields, boss |-> None,
     next_boss_time |-> [ms |-> 8356, err |-> 211894272], wave |-> 1, score |-> 316,
     combo_mult |-> 7, last_kill_time |-> 7242, has_top |-> TRUE,
     top |-> <<900, 700, 500, 300, 100>>, just_made_highscore |-> FALSE,
     file |-> TableFile(<<900, 700, 500, 300, 100>>), now |-> 11644, hit_age |-> 1500,
     kill_age |-> 1001]

\* GameOverState: the 17 ms frame after CrossfireState1: the first bullet took the last life.
\* Inputs of the run:
\* K_RETURN; 17 ms SPACE x 400; 17 ms no key x 26; 17 ms no key, column shot 7;
\* 17 ms no key x 87; 17 ms no key, column shot 6; 17 ms no key x 67; 50 ms no key;
\* 17 ms no key x 32; 17 ms no key, column shot 5 x 2; 17 ms no key x 67
GameOverState ==
    [scene |-> SCENE_GAME_OVER, godmode |-> FALSE,
     player |-> PlayerAt(375, 0, [ms |-> -5, err |-> -66560], Seconds(1500)),
     bullets |-> <<EnemyBulletAt(388, 526)>>,
     grid |-> MarchedGrid(1, 1, 137, 3, AllBut({3, 4, 5, 6, 12, 19, 20, 21, 22, 27, 28, 29, 30,
         35, 36, 37, 38, 43, 44, 45, 46})), shields |-> Shields, boss |-> None,
     next_boss_time |-> [ms |-> 8339, err |-> 212205568], wave |-> 1, score |-> 316,
     combo_mult |-> 7, last_kill_time |-> 7242, has_top |-> TRUE,
     top |-> <<900, 700, 500, 316, 300>>, just_made_highscore |-> FALSE,
     file |-> TableFile(<<900, 700, 500, 316, 300>>), now |-> 11661, hit_age |-> 0,
     kill_age |-> 1001]

\* AfterRunState: the menu after that run. Inputs of the run:
\* K_RETURN; 17 ms SPACE x 400; 17 ms no key x 26; 17 ms no key, column shot 7;
\* 17 ms no key x 87; 17 ms no key, column shot 6; 17 ms no key x 67; 50 ms no key;
\* 17 ms no key x 32; 17 ms no key, column shot 5 x 2; 17 ms no key x 70; K_RETURN
AfterRunState ==
    [scene |-> SCENE_MENU, godmode |-> FALSE,
     player |-> PlayerAt(375, 0, [ms |-> -5, err |-> -66560], Seconds(1500)),
     bullets |-> <<EnemyBulletAt(388, 526)>>,
     grid |-> MarchedGrid(1, 1, 137, 3, AllBut({3, 4, 5, 6, 12, 19, 20, 21, 22, 27, 28, 29, 30,
         35, 36, 37, 38, 43, 44, 45, 46})), shields |-> Shields, boss |-> None,
     next_boss_time |-> [ms |-> 8339, err |-> 212205568], wave |-> 1, score |-> 316,
     combo_mult |-> 7, last_kill_time |-> 7242, has_top |-> TRUE,
     top |-> <<900, 700, 500, 316, 300>>, just_made_highscore |-> FALSE,
     file |-> TableFile(<<900, 700, 500, 316, 300>>), now |-> 11712, hit_age |-> 0,
     kill_age |-> 1001]

\* NoTopState: the state of CrossfireState1 in a run that began with a highscore.json holding a
\* JSON object without the key "top": the Game has no table. Inputs of the run:
\* K_RETURN; 17 ms SPACE x 400; 17 ms no key x 26; 17 ms no key, column shot 7;
\* 17 ms no key x 87; 17 ms no key, column shot 6; 17 ms no key x 67; 50 ms no key;
\* 17 ms no key x 32; 17 ms no key, column shot 5 x 2; 17 ms no key x 66
NoTopState ==
    [scene |-> SCENE_PLAYING, godmode |-> FALSE,
     player |-> PlayerAt(375, 1, [ms |-> -5, err |-> -66560], [ms |-> -13, err |-> 1153344]),
     bullets |-> <<EnemyBulletAt(387, 526), EnemyBulletAt(388, 521)>>,
     grid |-> MarchedGrid(1, 1, 138, 3, AllBut({3, 4, 5, 6, 12, 19, 20, 21, 22, 27, 28, 29, 30,
         35, 36, 37, 38, 43, 44, 45, 46})), shields |-> Shields, boss |-> None,
     next_boss_time |-> [ms |-> 8356, err |-> 211894272], wave |-> 1, score |-> 316,
     combo_mult |-> 7, last_kill_time |-> 7242, has_top |-> FALSE, top |-> <<>>,
     just_made_highscore |-> FALSE, file |-> NoTopFile, now |-> 11644, hit_age |-> 1500,
     kill_age |-> 1001]

\* DescentState: after nine step-downs the grid is one pixel before the left margin, the player
\* at the left wall under column 0. Inputs of the run:
\* K_RETURN; 17 ms SPACE x 60; 17 ms LEFT x 73; 17 ms no key x 2086
DescentState ==
    [scene |-> SCENE_PLAYING, godmode |-> FALSE,
     player |-> PlayerAt(10, 3, [ms |-> -5, err |-> -66560], Seconds(0)), bullets |-> <<>>,
     grid |-> MarchedGrid(1, 1, -39, 9, AllBut({4, 20, 37, 45})), shields |-> Shields,
     boss |-> None, next_boss_time |-> [ms |-> 2286, err |-> 177682432], wave |-> 1,
     score |-> 46, combo_mult |-> 3, last_kill_time |-> 1479, has_top |-> TRUE,
     top |-> <<900, 700, 500, 300, 100>>, just_made_highscore |-> FALSE,
     file |-> TableFile(<<900, 700, 500, 300, 100>>), now |-> 37723, hit_age |-> 1500,
     kill_age |-> 1001]

\* ShieldLineState: the second grid of the run at the shield line after five step-downs; a
\* piece with one hit point left under an enemy, a player bullet under both, the boss due
\* within the frame. Inputs of the run:
\* K_RETURN; 17 ms SPACE x 60; 17 ms LEFT x 73; 17 ms no key x 2087; 17 ms LEFT x 71;
\* 17 ms SPACE x 25; 17 ms no key x 1206; 17 ms SPACE; 17 ms no key x 7
ShieldLineState ==
    [scene |-> SCENE_PLAYING, godmode |-> FALSE,
     player |-> PlayerAt(20, 2, [ms |-> 131, err |-> -60928], [ms |-> -13, err |-> 1153344]),
     bullets |-> <<PlayerBulletAt(43, 462)>>, grid |-> MarchedGrid(1, 1, -34, 5, AllBut({})),
     shields |-> WornShields(7 :> 1), boss |-> None,
     next_boss_time |-> [ms |-> 8, err |-> 181372096], wave |-> 1, score |-> 46,
     combo_mult |-> 3, last_kill_time |-> 1479, has_top |-> TRUE,
     top |-> <<900, 700, 500, 300, 100>>, just_made_highscore |-> FALSE,
     file |-> TableFile(<<900, 700, 500, 300, 100>>), now |-> 60010, hit_age |-> 1500,
     kill_age |-> 1001]

\* BarrageState: three player bullets and five enemy bullets in flight, the oldest of either
\* kind about to leave the screen. Inputs of the run:
\* K_RETURN; 17 ms LEFT x 54; 17 ms no key x 41; 17 ms SPACE; 17 ms no key x 15;
\* 17 ms no key, column shot 1; 17 ms no key x 3; 17 ms SPACE; 17 ms no key x 4;
\* 17 ms no key, column shot 1; 17 ms no key x 9; 17 ms no key, column shot 1;
\* 17 ms no key x 4; 17 ms SPACE; 17 ms no key x 4; 17 ms no key, column shot 1;
\* 17 ms no key x 9; 17 ms no key, column shot 1; 17 ms no key x 9
BarrageState ==
    [scene |-> SCENE_PLAYING, godmode |-> FALSE,
     player |-> PlayerAt(105, 3, [ms |-> -5, err |-> -66560], Seconds(0)),
     bullets |-> <<PlayerBulletAt(128, 6), EnemyBulletAt(192, 591), PlayerBulletAt(128, 166),
         EnemyBulletAt(201, 546), EnemyBulletAt(211, 496), PlayerBulletAt(128, 326),
         EnemyBulletAt(221, 446), EnemyBulletAt(231, 396)>>,
     grid |-> MarchedGrid(1, 1, 160, 0, AllBut({})), shields |-> Shields, boss |-> None,
     next_boss_time |-> [ms |-> 17280, err |-> 49807360], wave |-> 1, score |-> 0,
     combo_mult |-> 0, last_kill_time |-> NEVER_KILLED, has_top |-> TRUE, top |-> <<>>,
     just_made_highscore |-> FALSE, file |-> NoFile, now |-> 2720, hit_age |-> 1500,
     kill_age |-> 1001]

\* CapState: six enemy bullets in flight, the cap; two player bullets and the shoot cooldown
\* elapsed. Inputs of the run:
\* K_RETURN; 17 ms LEFT x 54; 17 ms no key x 67; 17 ms no key, column shot 1;
\* 17 ms no key x 3; 17 ms SPACE; 17 ms no key x 3; 17 ms no key, column shot 1;
\* 17 ms no key x 7; 17 ms no key, column shot 1; 17 ms no key x 7;
\* 17 ms SPACE, column shot 1; 17 ms no key x 7; 17 ms no key, column shot 1;
\* 17 ms no key x 7; 17 ms no key, column shot 1; 17 ms no key x 8
CapState ==
    [scene |-> SCENE_PLAYING, godmode |-> FALSE,
     player |-> PlayerAt(105, 3, [ms |-> -5, err |-> -66560], Seconds(0)),
     bullets |-> <<EnemyBulletAt(202, 591), PlayerBulletAt(128, 166), EnemyBulletAt(210, 551),
         EnemyBulletAt(218, 511), PlayerBulletAt(128, 326), EnemyBulletAt(226, 471),
         EnemyBulletAt(234, 431), EnemyBulletAt(242, 391)>>,
     grid |-> MarchedGrid(1, 1, 170, 0, AllBut({})), shields |-> Shields, boss |-> None,
     next_boss_time |-> [ms |-> 17110, err |-> 52920320], wave |-> 1, score |-> 0,
     combo_mult |-> 0, last_kill_time |-> NEVER_KILLED, has_top |-> TRUE, top |-> <<>>,
     just_made_highscore |-> FALSE, file |-> NoFile, now |-> 2890, hit_age |-> 1500,
     kill_age |-> 1001]

\* LastEnemyState: one enemy of wave 1 is left and the bullet that kills it is one frame under
\* it; a shield piece is gone. Inputs of the run:
\* K_RETURN (first boss after 30 s); 17 ms LEFT x 21; 17 ms SPACE x 38; 17 ms no key;
\* 17 ms LEFT x 7; 17 ms LEFT+SPACE; 17 ms no key x 14; 17 ms SPACE; 17 ms no key x 5;
\* 17 ms LEFT x 8; 17 ms no key; 17 ms SPACE; 17 ms no key x 14; 17 ms SPACE;
\* 17 ms no key x 7; 17 ms RIGHT; 17 ms no key x 4; 17 ms RIGHT; 17 ms no key; 17 ms SPACE;
\* 17 ms RIGHT x 2; 17 ms no key x 3; 17 ms RIGHT; 17 ms no key x 4; 17 ms RIGHT;
\* 17 ms no key x 3; 17 ms SPACE; 17 ms RIGHT x 17; 17 ms no key x 5; 17 ms RIGHT+SPACE;
\* 17 ms RIGHT; 17 ms no key; 17 ms RIGHT; 17 ms no key x 4; 17 ms RIGHT; 17 ms no key x 4;
\* 17 ms RIGHT; 17 ms no key; 17 ms SPACE; 17 ms no key x 2; 17 ms RIGHT; 17 ms no key x 2;
\* 17 ms RIGHT x 2; 17 ms no key x 7; 17 ms SPACE; 17 ms no key x 14; 17 ms SPACE;
\* 17 ms LEFT x 2; 17 ms no key x 4; 17 ms LEFT; 17 ms no key x 4; 17 ms LEFT;
\* 17 ms no key x 2; 17 ms SPACE; 17 ms LEFT x 2; 17 ms no key x 3; 17 ms LEFT;
\* 17 ms no key x 4; 17 ms LEFT; 17 ms no key; 17 ms RIGHT x 4; 17 ms RIGHT+SPACE;
\* 17 ms RIGHT x 5; 17 ms no key x 9; 17 ms SPACE; 17 ms no key x 14; 17 ms SPACE; 17 ms LEFT;
\* 17 ms no key x 4; 17 ms LEFT; 17 ms no key x 4; 17 ms LEFT; 17 ms no key x 3; 17 ms SPACE;
\* 17 ms LEFT x 2; 17 ms no key x 2; 17 ms LEFT; 17 ms no key x 4; 17 ms LEFT;
\* 17 ms no key x 4; 17 ms LEFT+SPACE; 17 ms RIGHT x 9; 17 ms no key x 5; 17 ms SPACE;
\* 17 ms no key x 14; 17 ms SPACE; 17 ms no key x 5; 17 ms LEFT; 17 ms no key x 4; 17 ms LEFT;
\* 17 ms no key x 3; 17 ms SPACE; 17 ms LEFT x 2; 17 ms no key x 2; 17 ms LEFT;
\* 17 ms no key x 4; 17 ms LEFT; 17 ms no key x 4; 17 ms LEFT+SPACE; 17 ms LEFT;
\* 17 ms no key x 2; 17 ms LEFT; 17 ms no key x 4; 17 ms LEFT; 17 ms no key x 4; 17 ms LEFT;
\* 17 ms no key; 17 ms RIGHT+SPACE; 17 ms RIGHT x 9; 17 ms no key x 5; 17 ms SPACE;
\* 17 ms no key x 14; 17 ms SPACE; 17 ms no key x 3; 17 ms RIGHT x 4; 17 ms no key x 2;
\* 17 ms RIGHT; 17 ms no key x 4; 17 ms RIGHT+SPACE; 17 ms RIGHT; 17 ms no key x 2;
\* 17 ms RIGHT; 17 ms no key x 4; 17 ms RIGHT; 17 ms no key x 4; 17 ms RIGHT; 17 ms SPACE;
\* 17 ms RIGHT x 2; 17 ms no key x 4; 17 ms RIGHT; 17 ms no key x 4; 17 ms RIGHT;
\* 17 ms no key x 2; 17 ms SPACE; 17 ms RIGHT x 2; 17 ms no key x 3; 17 ms RIGHT;
\* 17 ms no key x 4; 17 ms RIGHT x 15; 17 ms RIGHT+SPACE; 17 ms no key x 13; 17 ms RIGHT;
\* 17 ms SPACE; 17 ms RIGHT; 17 ms no key; 17 ms RIGHT; 17 ms no key x 4; 17 ms RIGHT;
\* 17 ms no key x 4; 17 ms RIGHT; 17 ms no key; 17 ms SPACE; 17 ms RIGHT x 2;
\* 17 ms no key x 3; 17 ms RIGHT; 17 ms no key x 4; 17 ms RIGHT; 17 ms no key x 3;
\* 17 ms SPACE; 17 ms RIGHT x 2; 17 ms no key x 2; 17 ms RIGHT; 17 ms no key x 4; 17 ms RIGHT;
\* 17 ms no key x 4; 17 ms RIGHT+SPACE; 17 ms RIGHT; 17 ms no key x 2; 17 ms RIGHT;
\* 17 ms no key x 4; 17 ms RIGHT; 17 ms no key x 4; 17 ms RIGHT; 17 ms SPACE; 17 ms RIGHT x 8;
\* 17 ms LEFT x 9; 17 ms LEFT+SPACE; 17 ms LEFT x 2; 17 ms no key x 12; 17 ms SPACE;
\* 17 ms LEFT x 25; 17 ms LEFT+SPACE; 17 ms LEFT x 7; 17 ms no key x 17; 17 ms LEFT x 14;
\* 17 ms LEFT+SPACE; 17 ms LEFT x 2; 17 ms no key; 17 ms LEFT; 17 ms no key x 4; 17 ms LEFT;
\* 17 ms no key x 4; 17 ms LEFT; 17 ms SPACE; 17 ms LEFT x 15; 17 ms LEFT+SPACE;
\* 17 ms LEFT x 3; 17 ms no key x 11; 17 ms SPACE; 17 ms no key x 4; 17 ms LEFT;
\* 17 ms no key x 4; 17 ms LEFT; 17 ms no key x 4; 17 ms LEFT+SPACE; 17 ms LEFT; 17 ms no key;
\* 17 ms LEFT; 17 ms no key x 4; 17 ms LEFT; 17 ms no key x 4; 17 ms LEFT; 17 ms no key;
\* 17 ms SPACE; 17 ms LEFT x 14; 17 ms LEFT+SPACE; 17 ms LEFT x 3; 17 ms no key x 4;
\* 17 ms LEFT; 17 ms no key x 4; 17 ms LEFT; 17 ms no key; 17 ms SPACE; 17 ms RIGHT x 35;
\* 17 ms RIGHT+SPACE; 17 ms RIGHT x 48; 17 ms RIGHT+SPACE; 17 ms no key x 45; 17 ms LEFT x 15;
\* 17 ms no key x 22; 17 ms LEFT+SPACE; 17 ms LEFT; 17 ms no key x 2; 17 ms LEFT;
\* 17 ms no key x 4; 17 ms LEFT; 17 ms no key x 4; 17 ms LEFT; 17 ms SPACE; 17 ms LEFT;
\* 17 ms no key; 17 ms LEFT; 17 ms no key x 4; 17 ms LEFT; 17 ms no key x 4; 17 ms LEFT;
\* 17 ms no key; 17 ms SPACE; 17 ms LEFT x 2; 17 ms no key x 4; 17 ms LEFT; 17 ms no key x 4;
\* 17 ms LEFT; 17 ms no key x 2; 17 ms SPACE; 17 ms LEFT x 2; 17 ms no key x 2; 17 ms LEFT;
\* 17 ms no key x 4; 17 ms LEFT; 17 ms no key x 4; 17 ms LEFT+SPACE; 17 ms no key x 46;
\* 17 ms LEFT x 21; 17 ms no key x 35; 17 ms LEFT x 24; 17 ms LEFT+SPACE; 17 ms no key x 44
LastEnemyState ==
    [scene |-> SCENE_PLAYING, godmode |-> FALSE,
     player |-> PlayerAt(125, 3, [ms |-> -5, err |-> -66560], Seconds(0)),
     bullets |-> <<PlayerBulletAt(148, 166)>>, grid |-> MarchedGrid(1, 1, -166, 4, <<4>>),
     shields |-> WornShields(26 :> 2 @@ 29 :> 2 @@ 31 :> 0 @@ 45 :> 2), boss |-> None,
     next_boss_time |-> [ms |-> 10314, err |-> 360480768], wave |-> 1, score |-> 1069,
     combo_mult |-> 4, last_kill_time |-> 17561, has_top |-> TRUE,
     top |-> <<900, 700, 500, 300, 100>>, just_made_highscore |-> FALSE,
     file |-> TableFile(<<900, 700, 500, 300, 100>>), now |-> 19686, hit_age |-> 1500,
     kill_age |-> 1001]

\* SkippedState: K_F3 has just emptied the grid of wave 1. Inputs of the run:
\* K_RETURN; 17 ms SPACE x 60; 17 ms LEFT x 12; 17 ms no key x 1079; K_F3
SkippedState ==
    [scene |-> SCENE_PLAYING, godmode |-> FALSE,
     player |-> PlayerAt(315, 3, [ms |-> -5, err |-> -66560], Seconds(0)), bullets |-> <<>>,
     grid |-> [EnemyGrid(1, 1) EXCEPT !.enemies = <<>>, !.dir = -1], shields |-> Shields,
     boss |-> None, next_boss_time |-> [ms |-> 433, err |-> 181533696], wave |-> 1,
     score |-> 46, combo_mult |-> 3, last_kill_time |-> 1479, has_top |-> TRUE,
     top |-> <<900, 700, 500, 300, 100>>, just_made_highscore |-> FALSE,
     file |-> TableFile(<<900, 700, 500, 300, 100>>), now |-> 19567, hit_age |-> 1500,
     kill_age |-> 1001]

\* BossPassState: wave 2, begun by K_F3: the boss passes over column 3, of which the top-row
\* enemy is left, a player bullet right under that enemy. Inputs of the run:
\* K_RETURN; 17 ms SPACE x 60; 17 ms LEFT x 12; 17 ms no key x 1079; K_F3; 17 ms no key;
\* 17 ms LEFT+SPACE; 17 ms no key x 14; 17 ms SPACE; 17 ms no key x 14; 17 ms RIGHT+SPACE;
\* 17 ms RIGHT; 17 ms no key; 17 ms RIGHT; 17 ms no key x 4; 17 ms RIGHT; 17 ms no key x 4;
\* 17 ms RIGHT; 17 ms no key; 17 ms SPACE; 17 ms RIGHT x 2; 17 ms no key x 4; 17 ms RIGHT;
\* 17 ms no key x 4; 17 ms RIGHT; 17 ms no key x 2; 17 ms SPACE; 17 ms RIGHT x 8;
\* 17 ms no key x 42; 17 ms SPACE; 17 ms no key x 15; 50 ms no key x 12
BossPassState ==
    [scene |-> SCENE_PLAYING, godmode |-> FALSE,
     player |-> PlayerAt(395, 3, [ms |-> -5, err |-> -66560], Seconds(0)),
     bullets |-> <<PlayerBulletAt(418, 98)>>,
     grid |-> MarchedGrid(2, 1, 175, 0, AllBut({12, 20, 28, 36, 44})), shields |-> Shields,
     boss |-> Some(BossAt(349)), next_boss_time |-> [ms |-> 27666, err |-> 26836992],
     wave |-> 2, score |-> 106, combo_mult |-> 4, last_kill_time |-> 21420, has_top |-> TRUE,
     top |-> <<900, 700, 500, 300, 100>>, just_made_highscore |-> FALSE,
     file |-> TableFile(<<900, 700, 500, 300, 100>>), now |-> 22343, hit_age |-> 1500,
     kill_age |-> 923]

\* PausedState: BossPassState, paused by K_p five seconds ago. Inputs of the run:
\* K_RETURN; 17 ms SPACE x 60; 17 ms LEFT x 12; 17 ms no key x 1079; K_F3; 17 ms no key;
\* 17 ms LEFT+SPACE; 17 ms no key x 14; 17 ms SPACE; 17 ms no key x 14; 17 ms RIGHT+SPACE;
\* 17 ms RIGHT; 17 ms no key; 17 ms RIGHT; 17 ms no key x 4; 17 ms RIGHT; 17 ms no key x 4;
\* 17 ms RIGHT; 17 ms no key; 17 ms SPACE; 17 ms RIGHT x 2; 17 ms no key x 4; 17 ms RIGHT;
\* 17 ms no key x 4; 17 ms RIGHT; 17 ms no key x 2; 17 ms SPACE; 17 ms RIGHT x 8;
\* 17 ms no key x 42; 17 ms SPACE; 17 ms no key x 15; 50 ms no key x 12; K_p;
\* 50 ms no key x 100
PausedState ==
    [scene |-> SCENE_PAUSED, godmode |-> FALSE,
     player |-> PlayerAt(395, 3, [ms |-> -5, err |-> -66560], Seconds(0)),
     bullets |-> <<PlayerBulletAt(418, 98)>>,
     grid |-> MarchedGrid(2, 1, 175, 0, AllBut({12, 20, 28, 36, 44})), shields |-> Shields,
     boss |-> Some(BossAt(349)), next_boss_time |-> [ms |-> 27666, err |-> 26836992],
     wave |-> 2, score |-> 106, combo_mult |-> 4, last_kill_time |-> 21420, has_top |-> TRUE,
     top |-> <<900, 700, 500, 300, 100>>, just_made_highscore |-> FALSE,
     file |-> TableFile(<<900, 700, 500, 300, 100>>), now |-> 27343, hit_age |-> 1500,
     kill_age |-> 923]

\* ResumedState: PausedState after K_p resumed the game. Inputs of the run:
\* K_RETURN; 17 ms SPACE x 60; 17 ms LEFT x 12; 17 ms no key x 1079; K_F3; 17 ms no key;
\* 17 ms LEFT+SPACE; 17 ms no key x 14; 17 ms SPACE; 17 ms no key x 14; 17 ms RIGHT+SPACE;
\* 17 ms RIGHT; 17 ms no key; 17 ms RIGHT; 17 ms no key x 4; 17 ms RIGHT; 17 ms no key x 4;
\* 17 ms RIGHT; 17 ms no key; 17 ms SPACE; 17 ms RIGHT x 2; 17 ms no key x 4; 17 ms RIGHT;
\* 17 ms no key x 4; 17 ms RIGHT; 17 ms no key x 2; 17 ms SPACE; 17 ms RIGHT x 8;
\* 17 ms no key x 42; 17 ms SPACE; 17 ms no key x 15; 50 ms no key x 12; K_p;
\* 50 ms no key x 100; K_p
ResumedState ==
    [scene |-> SCENE_PLAYING, godmode |-> FALSE,
     player |-> PlayerAt(395, 3, [ms |-> -5, err |-> -66560], Seconds(0)),
     bullets |-> <<PlayerBulletAt(418, 98)>>,
     grid |-> MarchedGrid(2, 1, 175, 0, AllBut({12, 20, 28, 36, 44})), shields |-> Shields,
     boss |-> Some(BossAt(349)), next_boss_time |-> [ms |-> 27666, err |-> 26836992],
     wave |-> 2, score |-> 106, combo_mult |-> 4, last_kill_time |-> 21420, has_top |-> TRUE,
     top |-> <<900, 700, 500, 300, 100>>, just_made_highscore |-> FALSE,
     file |-> TableFile(<<900, 700, 500, 300, 100>>), now |-> 27343, hit_age |-> 1500,
     kill_age |-> 923]

Checkpoints ==
    {EdgeState, TurnedState, ToughState2, ToughState1, CrossfireState2,
     CrossfireState1, CrossfireGodState, GameOverState, AfterRunState, NoTopState,
     DescentState, ShieldLineState, BarrageState, CapState, LastEnemyState,
     SkippedState, BossPassState, PausedState, ResumedState}

MidInit ==
    \E c \in Checkpoints :
        /\ scene = c.scene
        /\ running = TRUE
        /\ exited = FALSE
        /\ GODMODE = c.godmode
        /\ player = c.player
        /\ bullets = c.bullets
        /\ grid = c.grid
        /\ shields = c.shields
        /\ boss = c.boss
        /\ next_boss_time = c.next_boss_time
        /\ wave = c.wave
        /\ score = c.score
        /\ combo_mult = c.combo_mult
        /\ last_kill_time = c.last_kill_time
        /\ highscores = [has_top |-> c.has_top, top |-> c.top]
        /\ just_made_highscore = c.just_made_highscore
        /\ highscore_file = c.file
        /\ now = c.now
        /\ nsteps = MaxSteps - MidSteps
        /\ last_op = "init"
        /\ pre = None
        /\ hit_age = c.hit_age
        /\ kill_age = c.kill_age

\* Runs from construction and runs picked up in the middle.
SpecMid == (Init \/ MidInit) /\ [][Next]_vars

\* ============================================================== claims
SceneUpdates == {"update_menu", "update_game", "update_paused", "update_game_over"}

\* The observation of the last update_game, when the last step was one.
Observed == pre # None
Obs == pre[1]

\* Comparisons of the doubles the timers hold: x below y, x below 0 or at 0,
\* x at most the double of ms thousandths.
FloatLess(x, y) == x.ms < y.ms \/ (x.ms = y.ms /\ x.err < y.err)
NotBelowZero(x) == ~FloatLess(x, Seconds(0))
AtMostMs(x, ms) == ~FloatLess([ms |-> ms, err |-> MsErr(ms)], x)

\* The clock readings t / 1000.0 and last / 1000.0 (ms), as the doubles they
\* are, lie at most window ms apart.
ClockErr(u) == IF u >= 0 THEN MsErr(u) ELSE -MsErr(-u)
SinceKillAtMost(t, last, window) ==
    IF t - last # window THEN t - last < window
    ELSE ClockErr(t) - ClockErr(last) <= 0

\* C1: the scene changes only along MENU -> PLAYING (Enter), PLAYING ->
\* PAUSED (Escape or P), PAUSED -> PLAYING (Enter or P), PLAYING -> GAME_OVER
\* (an update_game that leaves no lives) and GAME_OVER -> MENU (Enter or
\* Escape), and each of these keys makes its change; Escape in MENU or PAUSED
\* ends the main loop, Escape in PLAYING or GAME_OVER leaves it running.
C1_SceneStep ==
    /\ scene' # scene =>
        \/ scene = SCENE_MENU /\ scene' = SCENE_PLAYING /\ last_op' = "return"
        \/ scene = SCENE_PLAYING /\ scene' = SCENE_PAUSED /\ last_op' \in {"escape", "p"}
        \/ scene = SCENE_PAUSED /\ scene' = SCENE_PLAYING /\ last_op' \in {"return", "p"}
        \/ scene = SCENE_PLAYING /\ scene' = SCENE_GAME_OVER /\ last_op' = "update_game"
              /\ player'.lives = 0
        \/ scene = SCENE_GAME_OVER /\ scene' = SCENE_MENU /\ last_op' \in {"return", "escape"}
    /\ last_op' = "return" /\ scene = SCENE_MENU => scene' = SCENE_PLAYING
    /\ last_op' \in {"escape", "p"} /\ scene = SCENE_PLAYING => scene' = SCENE_PAUSED
    /\ last_op' \in {"return", "p"} /\ scene = SCENE_PAUSED => scene' = SCENE_PLAYING
    /\ last_op' \in {"return", "escape"} /\ scene = SCENE_GAME_OVER => scene' = SCENE_MENU
    /\ last_op' = "escape" /\ scene \in {SCENE_MENU, SCENE_PAUSED} => ~running'
    /\ last_op' = "escape" /\ scene \in {SCENE_PLAYING, SCENE_GAME_OVER} => running' = running
    /\ last_op' \in SceneUpdates => (exited' <=> ~running)

\* C1: every step of a run changes the scene only along the five listed
\* transitions, and Escape ends the loop exactly from MENU and PAUSED.
C1_SceneTransitions == [][C1_SceneStep]_vars

\* A finished run has been left for the menu.
C1_Witness == scene = SCENE_MENU /\ player.lives = 0 /\ last_op \in {"return", "escape"}

\* C2: lives never go below 0, a life is lost only in an update_game with
\* god-mode off and one at a time, and the scene becomes GAME_OVER in exactly
\* the steps that take the lives from above 0 to 0.
C2_LivesStep ==
    /\ player'.lives < player.lives =>
          /\ last_op' = "update_game" /\ scene = SCENE_PLAYING /\ ~GODMODE
          /\ player'.lives = player.lives - 1
          /\ ~IsPositive(Obs'.game.player.invuln_timer)
    /\ (scene' = SCENE_GAME_OVER /\ scene # SCENE_GAME_OVER)
          <=> (player.lives > 0 /\ player'.lives = 0)

\* C2: lives stay at or above 0 in every state, and every step enters
\* GAME_OVER exactly when it takes the lives from above 0 to 0.
C2_GameOverExactly == [](player.lives >= 0) /\ [][C2_LivesStep]_vars

C2_Witness == scene = SCENE_GAME_OVER /\ last_op = "update_game" /\ player.lives = 0

\* C3: the update_game that takes the last life leaves the highscore table
\* equal to the table before it plus the score of the run, sorted descending
\* and cut to 5 entries.
C3_TableStep ==
    (player.lives > 0 /\ player'.lives = 0) =>
        /\ scene' = SCENE_GAME_OVER
        /\ highscores'.top = Take(SortDesc(Append(highscores.top, score')), 5)

\* C3: every step that takes the last life leaves the table equal to the
\* sorted top 5 of the table before it plus the score.
C3_TableAfterGameOver == [][C3_TableStep]_vars

\* C4: Player.hit changes nothing while the invulnerability timer is above 0
\* or god-mode is on, and otherwise takes exactly one life and sets the timer
\* to 1.5 s; a life is lost only when at least 1.5 s of update_game time have
\* passed since the previous loss.
HitContract(p, godmode) ==
    IF IsPositive(p.invuln_timer) \/ godmode
    THEN PlayerHit(p, godmode) = p /\ ~HitReturns(p, godmode)
    ELSE /\ PlayerHit(p, godmode).lives = p.lives - 1
         /\ PlayerHit(p, godmode).invuln_timer = Seconds(INVULN_MS)
         /\ PlayerHit(p, godmode).rect = p.rect
         /\ PlayerHit(p, godmode).shoot_timer = p.shoot_timer
         /\ HitReturns(p, godmode)

C4_HitStep ==
    last_op' = "update_game" =>
        LET p0 == Obs'.game.player
        IN  /\ HitContract(p0, GODMODE)
            /\ HitContract(player', GODMODE)
            /\ (IsPositive(p0.invuln_timer) \/ GODMODE) =>
                  /\ player'.lives = p0.lives
                  /\ player'.invuln_timer = p0.invuln_timer
            /\ player'.lives >= p0.lives - 1
            /\ player'.lives < player.lives =>
                  /\ player'.invuln_timer = Seconds(INVULN_MS)
                  /\ Obs'.hit_age >= INVULN_MS

\* C4: in every update_game, Player.hit is a no-op under invulnerability or
\* god-mode and otherwise costs one life and sets the timer to 1.5 s, so two
\* losses are at least 1.5 s apart.
C4_HitNoOpOrOneLife == [][C4_HitStep]_vars

\* A bullet met the player whose timer had run out: one life went.
C4_Witness ==
    /\ Observed
    /\ player.lives = Obs.game.player.lives - 1
    /\ player.invuln_timer = Seconds(INVULN_MS)
    /\ \E i \in 1..Len(Obs.game.bullets) :
          ~Obs.game.bullets[i].is_player
          /\ colliderect(Obs.game.bullets[i].rect, Obs.game.player.rect)

\* C5: a new game starts at wave 1 with a full grid at the base speed and
\* fire rate; an update_game whose grid is empty at the end-of-wave check
\* raises the wave by exactly 1 and installs a full grid 1.10 times as fast
\* and firing 1.05 times as often as the grid it replaces; the wave number
\* changes in no other step.
FullGrid(g) == Len(g.enemies) = ENEMY_ROWS * ENEMY_COLS /\ g.dir = 1

RECURSIVE Gcd(_, _)
Gcd(a, b) == IF b = 0 THEN a ELSE Gcd(b, a % b)

Lowest(f) == [num |-> f.num \div Gcd(f.num, f.den), den |-> f.den \div Gcd(f.num, f.den)]

\* the fraction c is the fraction a times the fraction m
ScaledBy(c, a, m) == Lowest(c) = Lowest([num |-> a.num * m.num, den |-> a.den * m.den])

C5_WaveStep ==
    /\ last_op' = "return" /\ scene = SCENE_MENU =>
          /\ wave' = 1 /\ FullGrid(grid')
          /\ grid'.speed = [num |-> ENEMY_START_SPEED, den |-> 1]
          /\ grid'.fire_rate = ENEMY_FIRE_RATE
    /\ last_op' = "update_game" =>
          \A after \in {handle_collisions(Obs'.game, GODMODE, Obs'.t, Obs'.draw)} :
              IF GridAlive(after.grid) = 0
              THEN /\ wave' = wave + 1
                   /\ FullGrid(grid')
                   /\ ScaledBy(grid'.speed, grid.speed, WAVE_SPEED_MULT)
                   /\ ScaledBy(grid'.fire_rate, grid.fire_rate, WAVE_FIRE_MULT)
                   /\ Lowest(grid'.speed) = Lowest([num |-> ENEMY_START_SPEED * Pow(11, wave),
                                                    den |-> Pow(10, wave)])
                   /\ Lowest(grid'.fire_rate) = Lowest([num |-> 28 * Pow(105, wave),
                                                        den |-> 100 * Pow(100, wave)])
              ELSE wave' = wave
    /\ last_op' # "update_game" /\ ~(last_op' = "return" /\ scene = SCENE_MENU) => wave' = wave

\* C5: in every step, a new game starts wave 1 with 48 enemies, and the wave
\* rises by 1, with speed x 1.10 and fire rate x 1.05, exactly when the grid
\* is empty at the end-of-wave check.
C5_WaveAdvance == [][C5_WaveStep]_vars

\* The last enemy of a wave was shot and the next wave stands.
C5_Witness ==
    /\ Observed
    /\ Obs.game.grid.enemies # <<>>
    /\ wave = Obs.game.wave + 1
    /\ FullGrid(grid)

\* ------------------------------------------- the bullet loops, observed
\* The Game as the first loop of handle_collisions finds it before the i-th
\* bullet of its copy of the list, and as the second loop finds it.
BeforePlayerBullet(i) ==
    PlayerBulletLoop(Obs.game, SubSeq(Obs.game.bullets, 1, i - 1), Obs.t)

AfterPlayerBullets == PlayerBulletLoop(Obs.game, Obs.game.bullets, Obs.t)

\* ap is the Game after the first loop
BeforeEnemyBullet(ap, i) ==
    EnemyBulletLoop(ap, SubSeq(ap.bullets, 1, i - 1), Obs.godmode)

AfterBullets == BulletLoops(Obs.game, Obs.godmode, Obs.t)

PlayerBulletIndexes == {i \in 1..Len(Obs.game.bullets) : Obs.game.bullets[i].is_player}

EnemyBulletIndexes(ap) == {i \in 1..Len(ap.bullets) : ~ap.bullets[i].is_player}

Touches(things, r) == \E i \in 1..Len(things) : colliderect(things[i].rect, r)

RECURSIVE TotalHpFrom(_, _)
TotalHpFrom(things, i) ==
    IF i > Len(things) THEN 0 ELSE things[i].hp + TotalHpFrom(things, i + 1)

TotalHp(things) == TotalHpFrom(things, 1)

\* C6: a player bullet is tested against the shields, then the boss, then
\* the enemies, an enemy bullet against the shields, then the player; the
\* first kind of target it overlaps is the only one it affects, and it
\* leaves the bullet list once.
C6_PlayerBullet(i) ==
    \A g \in {BeforePlayerBullet(i)} :
    \A r \in {PlayerBulletStep(g, Obs.game.bullets[i], Obs.t)} :
    LET b == Obs.game.bullets[i]
        onShield == Touches(g.shields, b.rect)
        onBoss == g.boss # None /\ colliderect(b.rect, g.boss[1].rect)
        onEnemy == Touches(g.grid.enemies, b.rect)
        gone == Len(r.bullets) = Len(g.bullets) - 1
    IN  CASE onShield ->
               /\ TotalHp(r.shields) = TotalHp(g.shields) - 1
               /\ r.boss = g.boss /\ r.grid = g.grid /\ r.score = g.score /\ gone
          [] ~onShield /\ onBoss ->
               /\ r.boss = None
               /\ r.shields = g.shields /\ r.grid = g.grid /\ gone
          [] ~onShield /\ ~onBoss /\ onEnemy ->
               /\ TotalHp(r.grid.enemies) = TotalHp(g.grid.enemies) - 1
               /\ r.shields = g.shields /\ r.boss = g.boss /\ gone
          [] OTHER -> r = g

C6_EnemyBullet(ap, i) ==
    \A g \in {BeforeEnemyBullet(ap, i)} :
    \A b \in {ap.bullets[i]} :
    \A r \in {EnemyBulletStep(g, b, Obs.godmode)} :
    LET onShield == Touches(g.shields, b.rect)
        onPlayer == colliderect(b.rect, g.player.rect)
        gone == Len(r.bullets) = Len(g.bullets) - 1
    IN  CASE onShield ->
               /\ TotalHp(r.shields) = TotalHp(g.shields) - 1
               /\ r.player = g.player /\ r.scene = g.scene /\ gone
          [] ~onShield /\ onPlayer ->
               /\ r.shields = g.shields /\ gone
               /\ r.player.lives \in {g.player.lives, g.player.lives - 1}
               /\ r.grid = g.grid /\ r.boss = g.boss /\ r.score = g.score
          [] OTHER -> r = g

\* C6: in every observed frame each bullet affects only the first kind of
\* target it overlaps, in the order shields, boss, enemies (player bullets)
\* and shields, player (enemy bullets), and is removed once.
C6_CollisionPriority ==
    Observed =>
        \A ap \in {AfterPlayerBullets} :
            /\ \A i \in PlayerBulletIndexes : C6_PlayerBullet(i)
            /\ \A i \in EnemyBulletIndexes(ap) : C6_EnemyBullet(ap, i)
            /\ shields = EnemyBulletLoop(ap, ap.bullets, Obs.godmode).shields

\* A player bullet overlapped a shield piece and an enemy: the enemy stands.
C6_Witness ==
    /\ Observed
    /\ \E i \in PlayerBulletIndexes :
          /\ Touches(BeforePlayerBullet(i).shields, Obs.game.bullets[i].rect)
          /\ Touches(BeforePlayerBullet(i).grid.enemies, Obs.game.bullets[i].rect)
          /\ Touches(grid.enemies, Obs.game.bullets[i].rect)
          /\ TotalHp(grid.enemies) = TotalHp(Obs.game.grid.enemies)

\* C7 as stated: whenever, after the movement of the frame, an enemy overlaps
\* the player box or has its bottom at or below HEIGHT - 50, the frame takes
\* the breach penalty: a fresh full grid at the same wave, no bullets, the
\* player back at the start position.
C7_AfterMovementStep ==
    (last_op' = "update_game" /\ AnyBreach(Obs'.game)) =>
        /\ wave' = wave
        /\ FullGrid(grid')
        /\ bullets' = <<>>
        /\ player'.rect = Player(WIDTH \div 2, HEIGHT - 30).rect

\* C7 as stated: every frame with an enemy in breach after movement takes
\* the breach penalty.
C7_BreachAfterMovement == [][C7_AfterMovementStep]_vars

\* C7, amended: whenever, after the bullet collisions of the frame are
\* resolved, a remaining enemy overlaps the player box or has its bottom at
\* or below HEIGHT - 50, the frame calls Player.hit once, installs a fresh
\* full grid at the same wave, clears the bullets, puts the player back at
\* the start position and ends the game when no life is left with god-mode
\* off; the penalty changes neither the score nor the shields.
C7_BreachStep ==
    last_op' = "update_game" =>
        \A bl \in {BulletLoops(Obs'.game, GODMODE, Obs'.t)} :
        LET hurt == ~(IsPositive(bl.player.invuln_timer) \/ GODMODE)
        IN  IF AnyBreach(bl)
            THEN /\ wave' = wave
                 /\ FullGrid(grid')
                 /\ grid'.speed = grid.speed /\ grid'.fire_rate = grid.fire_rate
                 /\ bullets' = <<>>
                 /\ player'.rect = Player(WIDTH \div 2, HEIGHT - 30).rect
                 /\ player'.lives = IF hurt THEN bl.player.lives - 1 ELSE bl.player.lives
                 /\ player'.invuln_timer = IF hurt THEN Seconds(INVULN_MS)
                                           ELSE bl.player.invuln_timer
                 /\ (scene' = SCENE_GAME_OVER) <=> (player'.lives <= 0 /\ ~GODMODE)
                 /\ score' = bl.score
                 /\ shields' = bl.shields
            ELSE /\ player' = bl.player
                 /\ (wave' = wave => grid' = bl.grid /\ bullets' = bl.bullets)

\* C7, amended: every frame with an enemy in breach after the bullet
\* collisions takes the breach penalty, which leaves score and shields alone.
C7_BreachPenalty == [][C7_BreachStep]_vars

\* An enemy reached the player and the penalty was taken.
C7_Witness ==
    /\ Observed
    /\ AnyBreach(AfterBullets)
    /\ \E i \in 1..Len(AfterBullets.grid.enemies) :
          colliderect(AfterBullets.grid.enemies[i].rect, AfterBullets.player.rect)
    /\ FullGrid(grid)
    /\ wave = Obs.game.wave

\* C8: score_add(base) adds COMBO_STEP to the multiplier when the previous
\* call was at most COMBO_WINDOW before and resets it to 0 otherwise, then
\* adds the integer nearest to base * (1 + multiplier) to the score; it is
\* called once for a destroyed boss (base 100) and once for a destroyed
\* enemy (its points) and for nothing else, so an update_game never lowers
\* the score.
C8_PlayerBullet(i) ==
    \A g \in {BeforePlayerBullet(i)} :
    \A r \in {PlayerBulletStep(g, Obs.game.bullets[i], Obs.t)} :
    LET b == Obs.game.bullets[i]
        k == FirstEnemyHit(g.grid.enemies, b.rect)
        base == IF g.boss # None /\ r.boss = None THEN BOSS_BONUS
                ELSE IF Len(r.grid.enemies) < Len(g.grid.enemies)
                THEN EnemyPoints(g.grid.enemies[k].type)
                ELSE 0
        pts == r.score - g.score
        diff == 10 * pts - base * (10 + r.combo_mult)
    IN  IF base > 0
        THEN /\ r.combo_mult = IF SinceKillAtMost(Obs.t, g.last_kill_time, COMBO_WINDOW)
                               THEN g.combo_mult + COMBO_STEP ELSE 0
             /\ r.last_kill_time = Obs.t
             /\ -5 <= diff /\ diff <= 5
             /\ pts >= base
        ELSE /\ r.score = g.score
             /\ r.combo_mult = g.combo_mult
             /\ r.last_kill_time = g.last_kill_time

C8_Scored ==
    Observed =>
        /\ \A i \in PlayerBulletIndexes : C8_PlayerBullet(i)
        /\ \A ap \in {AfterPlayerBullets} :
              /\ score = ap.score
              /\ combo_mult = ap.combo_mult
              /\ last_kill_time = ap.last_kill_time

C8_ScoreStep == last_op' = "update_game" => score' >= score

\* C8: every call of score_add updates the multiplier by the combo window
\* rule and adds round(base * (1 + multiplier)); no update_game lowers the
\* score.
C8_ScoreAdd == []C8_Scored /\ [][C8_ScoreStep]_vars

\* A kill inside the combo window: the multiplier went up and points came.
C8_Witness ==
    /\ Observed
    /\ combo_mult = Obs.game.combo_mult + COMBO_STEP
    /\ combo_mult > COMBO_STEP
    /\ score > Obs.game.score

\* C9: collide_bullet hits the first piece, in list order, that the bullet
\* overlaps and no other; the piece loses 1 hp and leaves the list when that
\* brings it to 0; the call reports a hit exactly when a piece was hit, and
\* the caller then removes the bullet.
C9_Call(g, b, r) ==
    \A k \in {FirstPieceHit(g.shields, b.rect)} :
    \A c \in {collide_bullet(g.shields, b)} :
        /\ c.hit <=> Touches(g.shields, b.rect)
        /\ c.pieces = r.shields
        /\ IF k = 0
           THEN r.shields = g.shields
           ELSE /\ Len(r.bullets) = Len(g.bullets) - 1
                /\ \A j \in 1..(k - 1) :
                      r.shields[j] = g.shields[j] /\ ~colliderect(g.shields[j].rect, b.rect)
                /\ IF g.shields[k].hp > 1
                   THEN /\ Len(r.shields) = Len(g.shields)
                        /\ r.shields[k] = [g.shields[k] EXCEPT !.hp = g.shields[k].hp - 1]
                        /\ \A j \in (k + 1)..Len(g.shields) : r.shields[j] = g.shields[j]
                   ELSE /\ Len(r.shields) = Len(g.shields) - 1
                        /\ \A j \in (k + 1)..Len(g.shields) : r.shields[j - 1] = g.shields[j]

\* C9: every call of collide_bullet hits the first overlapping piece only,
\* takes 1 hp, removes the piece at 0 hp, and the bullet is removed on a hit.
C9_ShieldCollision ==
    Observed =>
        /\ \A i \in PlayerBulletIndexes :
              \A g \in {BeforePlayerBullet(i)} :
              \A r \in {PlayerBulletStep(g, Obs.game.bullets[i], Obs.t)} :
                  C9_Call(g, Obs.game.bullets[i], r)
        /\ \A ap \in {AfterPlayerBullets} :
              \A i \in EnemyBulletIndexes(ap) :
              \A g \in {BeforeEnemyBullet(ap, i)} :
              \A b \in {ap.bullets[i]} :
              \A r \in {EnemyBulletStep(g, b, Obs.godmode)} :
                  C9_Call(g, b, r)
        /\ \A j \in 1..Len(shields) : shields[j].hp >= 1

\* A bullet took the last hp of a piece, and the piece is gone.
C9_Witness ==
    /\ Observed
    /\ Len(shields) = Len(Obs.game.shields) - 1
    /\ TotalHp(shields) < TotalHp(Obs.game.shields)

\* C10 as stated: the grid reverses and steps down in exactly the frames in
\* which, after the horizontal move, an enemy has left <= 20 or right >=
\* WIDTH - 20.
SameMarch(before, after) ==
    /\ Len(after.enemies) = Len(before.enemies)
    /\ \E dx \in -50..50 :
          /\ dx * before.dir >= 0
          /\ \A i \in 1..Len(before.enemies) :
                after.enemies[i].rect.x = before.enemies[i].rect.x + dx

Turned(before, after) ==
    /\ after.dir = -before.dir
    /\ \A i \in 1..Len(before.enemies) :
          after.enemies[i].rect.y = before.enemies[i].rect.y + ENEMY_STEP_DOWN

Straight(before, after) ==
    /\ after.dir = before.dir
    /\ \A i \in 1..Len(before.enemies) :
          after.enemies[i].rect.y = before.enemies[i].rect.y

C10_AnyMarginStep ==
    (last_op' = "update_game" /\ grid.enemies # <<>>) =>
        LET after == Obs'.game.grid
            crossing == \E i \in 1..Len(after.enemies) :
                           \/ Left(after.enemies[i].rect) <= EDGE_MARGIN
                           \/ Right(after.enemies[i].rect) >= WIDTH - EDGE_MARGIN
        IN  /\ SameMarch(grid, after)
            /\ IF crossing THEN Turned(grid, after) ELSE Straight(grid, after)

\* C10 as stated: in every frame the grid reverses and steps down exactly
\* when an enemy is inside either margin after the move.
C10_ReversalAtAnyMargin == [][C10_AnyMarginStep]_vars

\* C10, amended: every living enemy moves by one integer displacement whose
\* sign is dir; the grid reverses and steps down by ENEMY_STEP_DOWN in
\* exactly the frames in which, after that move, the living enemies' bounding
\* box (the box (0, 0, 0, 0) when none lives) has left <= 20 while the grid
\* travels left or right >= WIDTH - 20 while it travels right.
C10_FacingMarginStep ==
    last_op' = "update_game" =>
        LET after == Obs'.game.grid
            n == Len(after.enemies)
            atLeft == IF n = 0 THEN TRUE
                      ELSE \E i \in 1..n : Left(after.enemies[i].rect) <= EDGE_MARGIN
            atRight == IF n = 0 THEN FALSE
                       ELSE \E i \in 1..n : Right(after.enemies[i].rect) >= WIDTH - EDGE_MARGIN
        IN  /\ SameMarch(grid, after)
            /\ grid.dir \in {-1, 1}
            /\ IF (atLeft /\ grid.dir < 0) \/ (atRight /\ grid.dir > 0)
               THEN Turned(grid, after)
               ELSE Straight(grid, after)

\* C10, amended: in every frame the grid reverses and steps down exactly
\* when its bounding box is inside the margin it is travelling to.
C10_ReversalAtFacingMargin == [][C10_FacingMarginStep]_vars

\* The grid met the margin it was travelling to, and turned.
C10_Witness ==
    /\ Observed
    /\ Obs.game.grid.enemies # <<>>
    /\ Obs.game.grid.dir = -Obs.dir0

\* ---------------------------------------------------------------- C11
\* The boss slot holds at most one boss by construction (Game.boss is one
\* Optional attribute).  The step below is the countdown as the claim has
\* it: a frame that starts and ends with a boss leaves next_boss_time alone,
\* and the countdown goes up only in a frame in which the boss despawns.
C11_CountdownStep ==
    last_op' = "update_game" =>
        /\ Len(boss') <= 1
        /\ (boss # None /\ boss' # None) => next_boss_time' = next_boss_time
        /\ FloatLess(next_boss_time, next_boss_time') => (boss # None /\ boss' = None)

\* C11: at most one boss exists, and in every PLAYING frame in which a boss
\* exists the countdown next_boss_time is unchanged; it is restarted only
\* when the boss despawns.
C11_CountdownHeldByBoss == [][C11_CountdownStep]_vars

\* ---------------------------------------------------------------- C12
\* A player bullet that reaches the boss test (no shield piece took it) and
\* overlaps the boss.
C12_BossHit(i) ==
    \A g \in {BeforePlayerBullet(i)} :
    \A r \in {PlayerBulletStep(g, Obs.game.bullets[i], Obs.t)} :
    LET b == Obs.game.bullets[i]
        onBoss == /\ ~Touches(g.shields, b.rect)
                  /\ g.boss # None
                  /\ colliderect(b.rect, g.boss[1].rect)
    IN  onBoss =>
            /\ r.boss = None
            /\ Len(r.bullets) = Len(g.bullets) - 1
            /\ r.score = g.score + BOSS_BONUS

\* C12: in every observed frame, a player bullet that hits the boss destroys
\* it, is removed, and raises the score by exactly 100, whatever the combo
\* multiplier and the time since the last kill.
C12_BossBonusFlat == Observed => \A i \in PlayerBulletIndexes : C12_BossHit(i)

\* ---------------------------------------------------------------- C13
\* The entity state the claim lists: the player (position, lives, shoot and
\* invulnerability timers), the bullets, the enemy grid, the boss and its
\* countdown, the shields, the score and the wave.
EntityState == <<player, bullets, grid, shields, boss, next_boss_time, score, wave>>

\* A step that pauses, a step taken while paused (a frame, a key, the key
\* that resumes) and a frame in MENU or GAME_OVER leave the entity state as
\* it is; so it is at resume what it was at pause, however many frames the
\* pause lasted.
C13_FrozenStep ==
    /\ (scene = SCENE_PLAYING /\ scene' = SCENE_PAUSED) => UNCHANGED EntityState
    /\ scene = SCENE_PAUSED => UNCHANGED EntityState
    /\ (scene # SCENE_PLAYING /\ last_op' \in SceneUpdates) => UNCHANGED EntityState
    /\ last_op' \in {"update_menu", "update_paused", "update_game_over"} =>
           scene # SCENE_PLAYING /\ scene' = scene

\* C13: simulation runs only in PLAYING: no step from pause to resume, and no
\* frame in MENU, PAUSED or GAME_OVER, changes any entity state.
C13_OnlyPlayingSimulates == [][C13_FrozenStep]_vars

\* The run paused during the boss pass saw five seconds of frames go by and
\* was resumed with the player, the boss, the bullet, the grid and the score
\* it was paused with.
C13_Witness ==
    /\ scene = SCENE_PLAYING
    /\ last_op \in {"p", "return"}
    /\ now > BossPassState.now
    /\ player = BossPassState.player
    /\ boss = BossPassState.boss /\ boss # None
    /\ next_boss_time = BossPassState.next_boss_time
    /\ bullets = BossPassState.bullets /\ bullets # <<>>
    /\ grid = BossPassState.grid
    /\ score = BossPassState.score

\* ---------------------------------------------------------------- C14
\* C14: in every reachable state, from the startup load onward, the
\* in-memory highscore table has at most 5 entries and is in descending
\* order.
C14_TableTop5Descending ==
    /\ Len(highscores.top) <= 5
    /\ \A i \in 1..Len(highscores.top) : \A j \in i..Len(highscores.top) :
          highscores.top[i] >= highscores.top[j]

\* ---------------------------------------------------------------- C15
\* The caps hold for the list b.
C15_WithinCaps(b) ==
    /\ PlayerBulletCount(b) <= PLAYER_MAX_BULLETS
    /\ EnemyBulletCount(b) <= ENEMY_MAX_BULLETS

\* The caps hold at the end of every step and, in a frame, right after the
\* movement that spawns the bullets.
C15_Caps == C15_WithinCaps(bullets) /\ (Observed => C15_WithinCaps(Obs.game.bullets))

\* Player.shoot leaves the cooldown at PLAYER_CD_MS, which no other
\* assignment does: a frame that spawned a player bullet began with the
\* cooldown elapsed by the end of Player.update and fewer than the cap in
\* play; a frame that began with the enemy cap reached or with no enemy adds
\* no enemy bullet.
C15_SpawnStep ==
    last_op' = "update_game" =>
        /\ Obs'.game.player.shoot_timer = Seconds(PLAYER_CD_MS) =>
              /\ Obs'.keys.space
              /\ AtMostMs(player.shoot_timer, Obs'.dt)
              /\ PlayerBulletCount(bullets) < PLAYER_MAX_BULLETS
        /\ (EnemyBulletCount(bullets) >= ENEMY_MAX_BULLETS \/ GridAlive(grid) = 0) =>
              EnemyBulletCount(Obs'.game.bullets) <= EnemyBulletCount(bullets)

\* C15: in every reachable state at most PLAYER_MAX_BULLETS player bullets
\* and at most ENEMY_MAX_BULLETS enemy bullets are in play; a player bullet
\* is spawned only with the cooldown elapsed and the count below the cap, and
\* try_enemy_shot spawns nothing at the cap or with an empty grid.
C15_BulletCaps == []C15_Caps /\ [][C15_SpawnStep]_vars

\* A frame that began in CapState, with six enemy bullets in play, two player
\* bullets and the cooldown elapsed; SPACE was held and random.random() came
\* out below the fire rate.  The player bullet was spawned, which brought the
\* player bullets to their cap of three, and no enemy bullet was: the six
\* are still the only ones.
C15_Witness ==
    /\ Observed
    /\ now = CapState.now + Obs.dt
    /\ EnemyBulletCount(CapState.bullets) = ENEMY_MAX_BULLETS
    /\ PlayerBulletCount(CapState.bullets) = PLAYER_MAX_BULLETS - 1
    /\ Obs.keys.space
    /\ Obs.pick # 0
    /\ Obs.game.player.shoot_timer = Seconds(PLAYER_CD_MS)
    /\ PlayerBulletCount(Obs.game.bullets) = PLAYER_MAX_BULLETS
    /\ EnemyBulletCount(Obs.game.bullets) = ENEMY_MAX_BULLETS
    /\ GridAlive(Obs.game.grid) > 0

\* ---------------------------------------------------------------- C16
\* Player.update as the claim has it: timers that are at or above 0 before
\* the update are at or above 0 after it (the later steps of the frame only
\* set them to PLAYER_CD_MS or to INVULN_MS).
C16_TimerStep ==
    last_op' = "update_game" =>
        \A p \in {PlayerUpdate(player, Obs'.dt, Obs'.keys)} :
            /\ NotBelowZero(player.shoot_timer) => NotBelowZero(p.shoot_timer)
            /\ NotBelowZero(player.invuln_timer) => NotBelowZero(p.invuln_timer)

\* C16: Player.update decrements the shoot-cooldown and the invulnerability
\* timer by dt with a floor at 0: after any update neither is below 0.
C16_TimersFloorAtZero == [][C16_TimerStep]_vars

\* ---------------------------------------------------------------- C17
\* The box of p lies between the walls.
C17_Inside(p) == Left(p.rect) >= 10 /\ Right(p.rect) <= WIDTH - 10

\* C17: in every state the player's box has left >= 10 and right <=
\* WIDTH - 10: after the Player.update of an observed frame, after
\* reset_position and a new game (the states they end in), and after
\* Player.update from the current state for every frame time and every
\* combination of left and right.
C17_PlayerInsideWalls ==
    /\ C17_Inside(player)
    /\ Observed => C17_Inside(Obs.game.player)
    /\ \A dt \in DtSet : \A l \in BOOLEAN : \A r \in BOOLEAN :
          C17_Inside(PlayerUpdate(player, dt, [left |-> l, right |-> r, space |-> FALSE]))

\* A frame pushed the player into a wall: the box ends on the wall, held by
\* the clamp.
C17_Witness ==
    /\ Observed
    /\ \/ Obs.keys.left /\ Left(Obs.game.player.rect) = 10
       \/ Obs.keys.right /\ Right(Obs.game.player.rect) = WIDTH - 10 /\ Obs.dt = 50

\* ---------------------------------------------------------------- C18
\* A frame that called game_over ends as update_game computes it from the
\* state and the inputs of the frame, whether the file was written or not:
\* the scene is GAME_OVER, the table is the top 5 game_over built, holding
\* the score unless five higher entries keep it out, and the loop goes on.
C18_SaveStep ==
    (last_op' = "update_game" /\ Obs'.saves # <<>>) =>
        \A g \in {update_game(Self, GODMODE, Obs'.dt, Obs'.keys, Obs'.pick,
                              Obs'.btimer, Obs'.draw, Obs'.t)} :
            /\ scene' = SCENE_GAME_OVER /\ g.scene = SCENE_GAME_OVER
            /\ highscores' = g.highscores
            /\ highscores'.top = Obs'.saves[Len(Obs'.saves)]
            /\ \/ InSeq(score', highscores'.top)
               \/ Len(highscores'.top) = 5 /\ highscores'.top[5] > score'
            /\ just_made_highscore' = g.just_made_highscore
            /\ <<player', bullets', grid', shields', boss', score', wave'>> =
                 <<g.player, g.bullets, g.grid, g.shields, g.boss, g.score, g.wave>>
            /\ running' = running /\ exited' = ~running
            /\ \/ highscore_file' = highscore_file
               \/ highscore_file' = BrokenFile
               \/ \E k \in 1..Len(Obs'.saves) :
                     highscore_file' = TableFile(save_highscores(Obs'.saves[k]))

\* C18: a failing save of the highscore file is ignored: every frame that
\* runs game_over updates the in-memory table with the score and enters
\* GAME_OVER, and the loop continues, as when the save succeeds.
C18_SaveFailureIgnored == [][C18_SaveStep]_vars

\* The game is over and the table in memory holds the score, which the file
\* does not: the save failed.
C18_Witness ==
    /\ Observed
    /\ scene = SCENE_GAME_OVER
    /\ InSeq(score, highscores.top)
    /\ ~(highscore_file.kind = "table" /\ InSeq(score, highscore_file.top))
    /\ ~exited

\* ---------------------------------------------------------------- C19
\* Every call of game_over makes one save_highscores call, so the saves of
\* an observed frame count its game_over calls; no update_game runs once
\* the scene is GAME_OVER, so the calls of a run are those of one frame.
\* C19: game_over() is executed at most once within one run, and the score
\* enters the table at most once.
C19_GameOverOnce ==
    Observed =>
        /\ Len(Obs.saves) <= 1
        /\ Cardinality({i \in 1..Len(highscores.top) : highscores.top[i] = score})
             <= Cardinality({i \in 1..Len(Obs.game.highscores.top) :
                                Obs.game.highscores.top[i] = score}) + 1

\* ---------------------------------------------------------------- C20
\* The flag after a frame that ended the game, as the claim has it.
C20_FlagStep ==
    (last_op' = "update_game" /\ scene' = SCENE_GAME_OVER) =>
        (just_made_highscore' <=>
            (InSeq(score', highscores'.top) /\ ~InSeq(score', highscores.top)))

\* C20: after game_over(), just_made_highscore is true exactly when the
\* run's score is in the new top-5 table and was not in the table as it
\* stood before this game-over.
C20_FlagIffNewEntry == [][C20_FlagStep]_vars

\* ---------------------------------------------------------------- C21
\* Every enemy of the list has between 1 and its type's hit points, every
\* shield piece between 1 and SHIELD_SEG_HP.
C21_AllAlive(enemies, pieces) ==
    /\ \A i \in 1..Len(enemies) :
          enemies[i].hp >= 1 /\ enemies[i].hp <= EnemyHp(enemies[i].type)
    /\ \A i \in 1..Len(pieces) : pieces[i].hp \in 1..SHIELD_SEG_HP

\* At the frame boundary, and at the entry of handle_collisions.
C21_Boundary ==
    /\ C21_AllAlive(grid.enemies, shields)
    /\ Observed => C21_AllAlive(Obs.game.grid.enemies, Obs.game.shields)

\* The bullet loops of a frame remove one entity per bullet at most: the
\* enemies and the pieces they leave are at least those they found minus the
\* bullets that were consumed, and every entity they leave is alive.
C21_RemovalStep ==
    last_op' = "update_game" =>
        \A bl \in {BulletLoops(Obs'.game, GODMODE, Obs'.t)} :
            LET spent == Len(Obs'.game.bullets) - Len(bl.bullets)
                gone == (Len(Obs'.game.grid.enemies) - Len(bl.grid.enemies))
                        + (Len(Obs'.game.shields) - Len(bl.shields))
            IN  /\ gone >= 0 /\ gone <= spent
                /\ C21_AllAlive(bl.grid.enemies, bl.shields)
                /\ shields' = bl.shields

\* C21: in every state at a frame boundary every enemy in the grid has
\* hp > 0 and every shield piece hp in 1..3; nothing with hp <= 0 stays in
\* its collection, and no entity is removed twice.
C21_LiveEntitiesOnly == []C21_Boundary /\ [][C21_RemovalStep]_vars

\* A bullet took the last hit point of an enemy, which left the grid, while
\* the enemies around it stand.
C21_Witness ==
    /\ Observed
    /\ Len(Obs.game.grid.enemies) > 1
    /\ Len(grid.enemies) = Len(Obs.game.grid.enemies) - 1
    /\ Len(bullets) < Len(Obs.game.bullets)
    /\ score > Obs.game.score

\* ---------------------------------------------------------------- C22
\* Player bullet i at the enemy test (no shield piece and no boss took it):
\* the first enemy it overlaps, in list order, loses the bullet's damage and
\* no other enemy changes; the bullet leaves the list; the enemy leaves the
\* grid and the score goes up exactly when the hit takes its last hit point.
C22_EnemyHit(i) ==
    \A g \in {BeforePlayerBullet(i)} :
    \A b \in {Obs.game.bullets[i]} :
    \A r \in {PlayerBulletStep(g, b, Obs.t)} :
    \A k \in {FirstEnemyHit(g.grid.enemies, b.rect)} :
    LET atEnemies == /\ ~Touches(g.shields, b.rect)
                     /\ ~(g.boss # None /\ colliderect(b.rect, g.boss[1].rect))
                     /\ k # 0
        old == g.grid.enemies
        new == r.grid.enemies
    IN  atEnemies =>
            /\ \A j \in 1..(k - 1) : ~colliderect(old[j].rect, b.rect)
            /\ Len(r.bullets) = Len(g.bullets) - 1
            /\ r.bullets = RemoveFirst(g.bullets, b)
            /\ IF old[k].hp - b.damage > 0
               THEN /\ new = [old EXCEPT ![k].hp = old[k].hp - b.damage]
                    /\ r.score = g.score
                    /\ r.combo_mult = g.combo_mult
               ELSE /\ new = RemoveAt(old, k)
                    /\ r.score >= g.score + old[k].points

C22_Hits == Observed => \A i \in PlayerBulletIndexes : C22_EnemyHit(i)

\* A frame changes the score only when its bullet loops took an enemy or
\* the boss away.
C22_ScoreStep ==
    (last_op' = "update_game" /\ score' # score) =>
        \A bl \in {BulletLoops(Obs'.game, GODMODE, Obs'.t)} :
            \/ Len(bl.grid.enemies) < Len(Obs'.game.grid.enemies)
            \/ (Obs'.game.boss # None /\ bl.boss = None)

\* C22: a player bullet that intersects enemies damages only the first one
\* in list order and is removed whether or not the enemy dies; the enemy is
\* removed and the score changes only on the killing hit, so a tough enemy
\* survives its first hit without score and goes, with its points, on the
\* second.
C22_FirstEnemyOnly == []C22_Hits /\ [][C22_ScoreStep]_vars

\* The first hit on a tough enemy: it stands with one hit point, the bullet
\* is gone and the score is what it was.
C22_Witness ==
    /\ Observed
    /\ Len(bullets) < Len(Obs.game.bullets)
    /\ grid.enemies # Obs.game.grid.enemies
    /\ Len(grid.enemies) = Len(Obs.game.grid.enemies)
    /\ \E j \in 1..Len(grid.enemies) :
          /\ grid.enemies[j].type = "tough"
          /\ grid.enemies[j].hp = 1
          /\ Obs.game.grid.enemies[j].hp = 2
    /\ score = Obs.game.score

\* The second hit on a tough enemy: it is gone and its 20 points came.
C22_WitnessKill ==
    /\ Observed
    /\ \E j \in 1..Len(Obs.game.grid.enemies) :
          /\ Obs.game.grid.enemies[j].type = "tough"
          /\ Obs.game.grid.enemies[j].hp = 1
          /\ grid.enemies = RemoveAt(Obs.game.grid.enemies, j)
    /\ score = Obs.game.score + 20

\* ---------------------------------------------------------------- C23
\* Enemies of one grid column share their x, those of different columns are
\* 70 pixels or more apart.  In the list es, the buckets centerx // 70 are
\* the grid columns: two enemies have the same x exactly when they have the
\* same bucket, that is, the pairs (x, bucket) of the list are as many as its
\* x values and as its buckets.
C23_BucketsAreColumns(es) ==
    LET xs == {es[i].rect.x : i \in 1..Len(es)}
        cols == {ColumnOf(es[i]) : i \in 1..Len(es)}
        both == {<<es[i].rect.x, ColumnOf(es[i])>> : i \in 1..Len(es)}
    IN  Cardinality(both) = Cardinality(xs) /\ Cardinality(both) = Cardinality(cols)

\* The grid of the state and the grid try_enemy_shot read in the last frame.
C23_Buckets ==
    /\ C23_BucketsAreColumns(grid.enemies)
    /\ (Observed /\ Obs.game.grid.enemies # grid.enemies) =>
          C23_BucketsAreColumns(Obs.game.grid.enemies)

\* The enemy es[i] is the lowest living enemy of its grid column.
C23_BottomMost(es, i) ==
    \A j \in 1..Len(es) : es[j].rect.x = es[i].rect.x => Bottom(es[j].rect) <= Bottom(es[i].rect)

\* A frame in which try_enemy_shot fired (the random test passed, the cap
\* was not reached, an enemy lives): the new bullet is the last of the list,
\* moved once by Bullet.update, and it left the bottom-most enemy of a column
\* of the grid as EnemyGrid.update left it.
C23_ShotStep ==
    (/\ last_op' = "update_game"
     /\ Obs'.pick # 0
     /\ EnemyBulletCount(bullets) < ENEMY_MAX_BULLETS
     /\ GridAlive(grid) > 0) =>
        \A es \in {Obs'.game.grid.enemies} :
        \A nb \in {Obs'.game.bullets[Len(Obs'.game.bullets)]} :
            /\ ~nb.is_player
            /\ \E i \in 1..Len(es) :
                  /\ nb = BulletUpdate(EnemyShot(es[i]), Obs'.dt)
                  /\ C23_BottomMost(es, i)
            /\ \A i \in 1..Len(es) :
                  nb = BulletUpdate(EnemyShot(es[i]), Obs'.dt) => C23_BottomMost(es, i)

\* C23: every enemy bullet is spawned from the bottom-most living enemy of
\* its grid column, for every grid position and set of survivors; enemies
\* share a column bucket exactly when they are in the same grid column.
C23_BottomMostShoots == []C23_Buckets /\ [][C23_ShotStep]_vars

\* A shot came from a column in which another enemy stands above the shooter.
C23_Witness ==
    /\ Observed
    /\ Obs.pick # 0
    /\ Obs.game.bullets # <<>>
    /\ \E i \in 1..Len(Obs.game.grid.enemies) : \E j \in 1..Len(Obs.game.grid.enemies) :
          /\ Obs.game.bullets[Len(Obs.game.bullets)] =
                BulletUpdate(EnemyShot(Obs.game.grid.enemies[i]), Obs.dt)
          /\ Obs.game.grid.enemies[j].rect.x = Obs.game.grid.enemies[i].rect.x
          /\ Bottom(Obs.game.grid.enemies[j].rect) < Bottom(Obs.game.grid.enemies[i].rect)

\* ---------------------------------------------------------------- C24
\* Every piece of new is a piece of old, at its place, with no more hit
\* points than it had.
C24_Shrunk(old, new) ==
    /\ Len(new) <= Len(old)
    /\ \A j \in 1..Len(new) : \E i \in 1..Len(old) :
          new[j].rect = old[i].rect /\ new[j].hp <= old[i].hp

\* A frame leaves the shields as its bullet loops left them, whether it then
\* took the breach penalty or advanced the wave; no step adds a piece or a
\* hit point but K_RETURN in MENU, which builds the full pattern.
C24_ShieldStep ==
    /\ last_op' = "update_game" =>
          shields' = BulletLoops(Obs'.game, GODMODE, Obs'.t).shields
    /\ \/ C24_Shrunk(shields, shields')
       \/ (last_op' = "return" /\ scene = SCENE_MENU /\ shields' = Shields)
    /\ (last_op' = "return" /\ scene = SCENE_MENU) => shields' = Shields

\* C24: shields persist within a run: the next wave and the breach penalty
\* leave every piece and its hit points unchanged, the pieces only shrink
\* during a run, and only a new game rebuilds the full pattern.
C24_ShieldsPersist == [][C24_ShieldStep]_vars

\* The wave advanced over shields that had lost a piece, and they still
\* lack it.
C24_Witness ==
    /\ Observed
    /\ wave = Obs.game.wave + 1
    /\ Len(shields) < Len(Shields)
    /\ C24_Shrunk(Obs.game.shields, shields)

\* ---------------------------------------------------------------- C25
\* K_RETURN in MENU: the run that starts is the fresh one, whatever the Game
\* held before.
C25_NewGameStep ==
    (scene = SCENE_MENU /\ last_op' = "return") =>
        /\ scene' = SCENE_PLAYING
        /\ player' = Player(WIDTH \div 2, HEIGHT - 30)
        /\ player'.lives = PLAYER_LIVES
        /\ player'.shoot_timer = Seconds(0) /\ player'.invuln_timer = Seconds(0)
        /\ wave' = 1 /\ score' = 0 /\ combo_mult' = 0
        /\ bullets' = <<>>
        /\ boss' = None
        /\ ~FloatLess(next_boss_time', Seconds(BOSS_CD_MIN))
        /\ ~FloatLess(Seconds(BOSS_CD_MAX), next_boss_time')
        /\ shields' = Shields
        /\ Len(grid'.enemies) = ENEMY_ROWS * ENEMY_COLS
        /\ \E draw \in Draws : grid' = EnemyGrid(1, draw)
        /\ grid'.speed = [num |-> ENEMY_START_SPEED, den |-> 1]
        /\ Lowest(grid'.fire_rate) = Lowest(ENEMY_FIRE_RATE)

\* C25: Enter in MENU always starts the same fresh run, whatever the
\* previous run left: full lives, wave 1, score 0, no combo, timers at 0, no
\* bullets, no boss and a new boss countdown, full shields and a full grid of
\* 48 enemies at the speed and fire rate of wave 1.
C25_FreshRun == [][C25_NewGameStep]_vars

\* A new run was started from the menu after a run whose score is in the
\* table.
C25_Witness ==
    /\ scene = SCENE_PLAYING
    /\ last_op = "return"
    /\ now >= AfterRunState.now
    /\ InSeq(AfterRunState.score, highscores.top)
    /\ score = 0
    /\ player.lives = PLAYER_LIVES

\* ---------------------------------------------------------------- C26
\* A frame whose first score_add comes at most COMBO_WINDOW of update_game
\* time after the previous one raises the multiplier by COMBO_STEP (and by
\* COMBO_STEP more for every further kill of the frame).
C26_ComboStep ==
    (/\ last_op' = "update_game"
     /\ last_kill_time' # last_kill_time
     /\ kill_age + Obs'.dt <= COMBO_WINDOW) =>
        combo_mult' >= combo_mult + COMBO_STEP

\* C26: time spent in PAUSED does not count toward the combo window: a kill
\* at most 1.0 s of PLAYING time after the previous one raises the
\* multiplier by 0.1, however long the game was paused in between.
C26_PauseOutsideWindow == [][C26_ComboStep]_vars

\* ---------------------------------------------------------------- C27
\* Every bullet in play lies on the screen (bottom >= 0, top <= HEIGHT) and
\* flies towards the edge it will leave by.
C27_OnScreen ==
    \A i \in 1..Len(bullets) :
        /\ BulletAlive(bullets[i])
        /\ IF bullets[i].is_player THEN bullets[i].vy < 0 ELSE bullets[i].vy > 0

\* One PLAYING frame at a frame time of DtSet: every bullet moves strictly
\* towards its edge, at least 5 pixels; the bullets that stay on the screen
\* head the list handle_collisions gets, moved, followed by at most one new
\* player bullet and one new enemy bullet; the bullets that left the screen
\* are not in it; the frame ends with no bullet that was not in that list.
C27_FlightStep ==
    last_op' = "update_game" =>
        \A moved \in {[i \in 1..Len(bullets) |-> BulletUpdate(bullets[i], Obs'.dt)]} :
        \A kept \in {SelectSeq(moved, BulletAlive)} :
            /\ \A i \in 1..Len(bullets) :
                  /\ moved[i].rect.x = bullets[i].rect.x
                  /\ IF bullets[i].is_player
                     THEN moved[i].rect.y <= bullets[i].rect.y - 5
                     ELSE moved[i].rect.y >= bullets[i].rect.y + 5
            /\ Len(Obs'.game.bullets) >= Len(kept)
            /\ SubSeq(Obs'.game.bullets, 1, Len(kept)) = kept
            /\ Len(Obs'.game.bullets) <= Len(kept) + 2
            /\ \A j \in 1..Len(Obs'.game.bullets) : BulletAlive(Obs'.game.bullets[j])
            /\ Len(bullets') <= Len(Obs'.game.bullets)
            /\ \A j \in 1..Len(bullets') : InSeq(bullets'[j], Obs'.game.bullets)

\* C27: every bullet is eventually removed from play: in every PLAYING frame
\* at the target rate each player bullet moves strictly upward and each
\* enemy bullet strictly downward, by 5 pixels or more, and a bullet is in
\* the list only while it is on the screen and has hit nothing; a bullet
\* therefore lasts (HEIGHT + 12) / 5 frames at most, and a cap it fills is
\* freed again.
C27_BulletsLeave == []C27_OnScreen /\ [][C27_FlightStep]_vars

\* A frame of the barrage took its oldest player bullet over the top edge
\* and its oldest enemy bullet over the bottom edge: a list of eight came
\* down to six, below both caps.
C27_Witness ==
    /\ Observed
    /\ now = BarrageState.now + Obs.dt
    /\ ~Obs.keys.space
    /\ Obs.pick = 0
    /\ PlayerBulletCount(Obs.game.bullets) = PLAYER_MAX_BULLETS - 1
    /\ EnemyBulletCount(Obs.game.bullets) = 4
    /\ bullets = Obs.game.bullets

====
